---- MODULE Spec2Model ----
(***************************************************************************)
(* Campus placement portal (src/app.py): the record store (students,       *)
(* semester performance rows, backlog ledger, companies, applications)     *)
(* and the request handlers that change it.                                *)
(*                                                                         *)
(* Numbers: SGPA and CGPA are held in hundredths (8.50 is 850); the        *)
(* parser only lets through SGPA texts with at most two decimals, so the   *)
(* scaling is exact.  Credits are whole numbers here.  Rows of a table are *)
(* kept in insertion order, the order in which the default SQLite store    *)
(* returns them to a query without ORDER BY.                               *)
(***************************************************************************)
EXTENDS Integers, Sequences, FiniteSets, TLC

VARIABLES student, semester_performance, backlog_update, company,
          application, user, otp_token, notification_log, session,
          mail_server, flash,
          upload,          \* the tables of the PDF an import request carries
          other_session    \* the session cookie of a second browser

vars == <<student, semester_performance, backlog_update, company,
          application, user, otp_token, notification_log, session,
          mail_server, flash, upload, other_session>>

store == <<student, semester_performance, backlog_update, company,
           application>>
accounts == <<user, otp_token, notification_log, session>>

(***************************************************************************)
(* Bounds and input domains                                                *)
(***************************************************************************)
MaxRows == 1
MaxLedger == 1
MaxLog == 2

Rolls == {"R1", "R2"}
Branches == {"CSE", "ECE"}
CompanyNames == {"C1", "C2"}
SgpaValues == {800, 801, 900}
CreditValues == {10, 20}

ELIGIBILITY_STATUSES ==
    {"ELIGIBLE", "EXTERNAL_INTERN", "CAMPUS_INTERN", "EXTERNAL_PLACED",
     "BLOCKED_BY_POLICY"}
SELECTION_POLICIES == {"BLOCKING", "NON_BLOCKING"}
APPLICATION_STATUSES ==
    {"APPLIED", "SHORTLISTED", "INTERVIEW", "SELECTED", "REJECTED"}

NULL == "NULL"
NoReason == <<"none">>

(***************************************************************************)
(* Text.  A cell of an extracted table is a sequence of characters; a      *)
(* None cell and an empty cell both read as the empty text (c or "").      *)
(***************************************************************************)
LowerLetters ==
    <<"a", "b", "c", "d", "e", "f", "g", "h", "i", "j", "k", "l", "m",
      "n", "o", "p", "q", "r", "s", "t", "u", "v", "w", "x", "y", "z">>
UpperLetters ==
    <<"A", "B", "C", "D", "E", "F", "G", "H", "I", "J", "K", "L", "M",
      "N", "O", "P", "Q", "R", "S", "T", "U", "V", "W", "X", "Y", "Z">>
DecimalDigits == <<"0", "1", "2", "3", "4", "5", "6", "7", "8", "9">>
\* Characters str.isdigit() accepts and int() does not.
SuperscriptDigits == {"²", "³", "¹"}
WhiteSpace == {" ", "\t", "\n"}

Range(f) == {f[i] : i \in DOMAIN f}
Letters == Range(LowerLetters) \cup Range(UpperLetters)
IndexIn(seq, ch) == CHOOSE i \in DOMAIN seq : seq[i] = ch

\* A session cookie with nothing in it.
NoSession ==
    [user_id |-> NULL, pending_verify_user_id |-> NULL,
     pending_login_user_id |-> NULL]

\* The state without an import request at hand.
NoUpload == [present |-> FALSE, tables |-> << >>]

RECURSIVE str_lstrip(_)
str_lstrip(t) ==
    IF Len(t) > 0 /\ Head(t) \in WhiteSpace THEN str_lstrip(Tail(t)) ELSE t

RECURSIVE str_rstrip(_)
str_rstrip(t) ==
    IF Len(t) > 0 /\ t[Len(t)] \in WhiteSpace
    THEN str_rstrip(SubSeq(t, 1, Len(t) - 1)) ELSE t

str_strip(t) == str_rstrip(str_lstrip(t))

str_upper(t) ==
    [i \in 1..Len(t) |-> IF t[i] \in Range(LowerLetters)
                         THEN UpperLetters[IndexIn(LowerLetters, t[i])] ELSE t[i]]

str_lower(t) ==
    [i \in 1..Len(t) |-> IF t[i] \in Range(UpperLetters)
                         THEN LowerLetters[IndexIn(UpperLetters, t[i])] ELSE t[i]]

\* t.replace(" ", "")
str_replace_spaces(t) == LET kept(ch) == ch # " " IN SelectSeq(t, kept)

\* word in t
str_contains(t, word) ==
    \E i \in 1..(Len(t) - Len(word) + 1) : SubSeq(t, i, i + Len(word) - 1) = word

str_isdigit(t) ==
    /\ Len(t) > 0
    /\ \A i \in 1..Len(t) : t[i] \in Range(DecimalDigits) \cup SuperscriptDigits

DigitValue(ch) == IndexIn(DecimalDigits, ch) - 1

\* int(t) for a text of decimal digits.
RECURSIVE int_of(_)
int_of(t) ==
    IF Len(t) = 0 THEN 0
    ELSE 10 * int_of(SubSeq(t, 1, Len(t) - 1)) + DigitValue(t[Len(t)])

(***************************************************************************)
(* Generic helpers                                                         *)
(***************************************************************************)
RECURSIVE SumInts(_)
SumInts(s) == IF Len(s) = 0 THEN 0 ELSE Head(s) + SumInts(Tail(s))

\* sum(F(r) for r in s)
SumSeq(s, F(_)) == SumInts([i \in 1..Len(s) |-> F(s[i])])

Max(a, b) == IF a >= b THEN a ELSE b

\* str.upper() on the branch codes that are typed in.
Upper(text) ==
    CASE text = "cse" -> "CSE"
      [] text = "ece" -> "ECE"
      [] OTHER -> text

SeqsUpTo(S, n) == UNION {[1..k -> S] : k \in 0..n}

(***************************************************************************)
(* MetricsCalculator                                                       *)
(***************************************************************************)
\* SemesterPerformance.query.filter_by(student_id=...).all()
RecordsOf(perf, sid) ==
    LET mine(r) == r.student_id = sid IN SelectSeq(perf, mine)

\* The inputs of the domain on which round(weighted_sum / total_credits, 2)
\* lands on the upper hundredth although the exact quotient lies half way:
\* the double sum of the products depends on the order of the addends.
FloatTieRoundsUp ==
    { << <<801, 10>>, <<900, 20>>, <<801, 10>> >>,
      << <<900, 20>>, <<801, 10>>, <<801, 10>> >> }

\* round(weighted_sum / total_credits, 2) in double arithmetic: the nearest
\* hundredth; an exact half is settled by the rounding error of the sum.
PyRound2(usable) ==
    LET wprod(r) == r.sgpa * r.semester_credits
        cred(r) == r.semester_credits
        weighted_sum == SumSeq(usable, wprod)
        total_credits == SumSeq(usable, cred)
        q == weighted_sum \div total_credits
        rem == weighted_sum % total_credits
        key == [i \in 1..Len(usable) |->
                  <<usable[i].sgpa, usable[i].semester_credits>>]
    IN  IF 2 * rem < total_credits THEN q
        ELSE IF 2 * rem > total_credits THEN q + 1
        ELSE IF key \in FloatTieRoundsUp THEN q + 1 ELSE q

\* calculate_cgpa leaving out the semesters that carry a backlog.
CgpaOfRecords_SkipsBacklogSemesters(records, is_lateral_entry) ==
    IF Len(records) = 0 THEN 0
    ELSE
      LET min_sem == IF is_lateral_entry THEN 3 ELSE 1
          ok(r) == r.semester_no >= min_sem /\ r.semester_credits > 0
                   /\ r.backlog_count <= 0
          cred(r) == r.semester_credits
          usable == SelectSeq(records, ok)
      IN  IF Len(usable) = 0 THEN 0
          ELSE IF SumSeq(usable, cred) <= 0 THEN 0
          ELSE PyRound2(usable)

CgpaOfRecords(records, is_lateral_entry) ==
    IF Len(records) = 0 THEN 0
    ELSE
      LET min_sem == IF is_lateral_entry THEN 3 ELSE 1
          ok(r) == r.semester_no >= min_sem /\ r.semester_credits > 0
          cred(r) == r.semester_credits
          usable == SelectSeq(records, ok)
      IN  IF Len(usable) = 0 THEN 0
          ELSE IF SumSeq(usable, cred) <= 0 THEN 0
          ELSE PyRound2(usable)

calculate_cgpa(stu, perf, sid) ==
    CgpaOfRecords(RecordsOf(perf, sid), stu[sid].is_lateral_entry)

calculate_backlog(perf, sid) ==
    LET nonneg(r) == Max(0, r.backlog_count)
    IN  SumSeq(RecordsOf(perf, sid), nonneg)

\* refresh_student_metrics that recomputes the CGPA only.
refresh_student_metrics_CgpaOnly(stu, perf, sid) ==
    [stu EXCEPT ![sid].cgpa = calculate_cgpa(stu, perf, sid)]

\* The student table after refresh_student_metrics(student sid).
refresh_student_metrics(stu, perf, sid) ==
    [stu EXCEPT ![sid].cgpa = calculate_cgpa(stu, perf, sid),
                ![sid].total_backlogs = calculate_backlog(perf, sid)]

(***************************************************************************)
(* Student creation                                                        *)
(***************************************************************************)
NewStudent(branch, lateral, sem, resume, status, reason) ==
    [branch |-> branch, is_lateral_entry |-> lateral,
     current_semester |-> sem, cgpa |-> 0, total_backlogs |-> 0,
     resume_link |-> resume, eligibility_status |-> status,
     block_reason |-> reason, blocked_by_company_id |-> NULL]

\* POST /students.  resume: whether a resume link was given; note: the
\* block_reason text, NoReason when the field is empty.
students(roll_no, branch, lateral, sem, resume, status, note) ==
    /\ roll_no \notin DOMAIN student
    /\ IF status \notin ELIGIBILITY_STATUSES
       THEN /\ flash' = <<"Invalid eligibility status.">>
            /\ UNCHANGED student
       ELSE /\ student' = student @@
                 (roll_no :> NewStudent(Upper(branch), lateral, sem, resume, status, note))
            /\ flash' = <<"Student added.">>
    /\ UNCHANGED <<semester_performance, backlog_update, company, application,
                   accounts, mail_server, upload, other_session>>

\* POST /students/<id>/resume-link
update_resume_link(sid, has_link) ==
    /\ sid \in DOMAIN student
    /\ IF ~has_link
       THEN /\ flash' = <<"Resume link is required.">>
            /\ UNCHANGED student
       ELSE /\ student' = [student EXCEPT ![sid].resume_link = TRUE]
            /\ flash' = <<"Resume link updated.">>
    /\ UNCHANGED <<semester_performance, backlog_update, company, application,
                   accounts, mail_server, upload, other_session>>

(***************************************************************************)
(* ImportReconciler                                                        *)
(***************************************************************************)
\* Index of the SemesterPerformance row of (sid, semester_no), 0 if none.
PerfIndex(perf, sid, semester_no) ==
    LET hits == {i \in 1..Len(perf) : perf[i].student_id = sid
                                      /\ perf[i].semester_no = semester_no}
    IN  IF hits = {} THEN 0 ELSE CHOOSE i \in hits : \A j \in hits : i <= j

\* ImportRow that never looks the record up and always inserts one.
ImportRow_AlwaysInserts(acc, row, branch, semester_no, semester_credits) ==
    LET sid == row.roll_no
        isNew == sid \notin DOMAIN acc.student
        stu1 == IF isNew
                THEN acc.student @@
                     (sid :> NewStudent(branch, FALSE, semester_no, FALSE,
                                        "ELIGIBLE", NoReason))
                ELSE acc.student
        acc1 == [acc EXCEPT !.student = stu1,
                            !.created_students = @ + (IF isNew THEN 1 ELSE 0)]
        perf2 == Append(acc.perf,
                        [student_id |-> sid, semester_no |-> semester_no,
                         sgpa |-> row.sgpa,
                         semester_credits |-> semester_credits,
                         backlog_count |-> row.backlog])
        stu2 == [stu1 EXCEPT ![sid].current_semester = Max(@, semester_no)]
    IN  IF Upper(stu1[sid].branch) # branch THEN acc1
        ELSE IF stu1[sid].is_lateral_entry /\ semester_no < 3
             THEN [acc1 EXCEPT !.skipped_lateral = @ + 1]
        ELSE [acc1 EXCEPT !.student = refresh_student_metrics(stu2, perf2, sid),
                          !.perf = perf2,
                          !.updated = @ + 1]

\* ImportRow without the branch comparison.
ImportRow_NoBranchCheck(acc, row, branch, semester_no, semester_credits) ==
    LET sid == row.roll_no
        isNew == sid \notin DOMAIN acc.student
        stu1 == IF isNew
                THEN acc.student @@
                     (sid :> NewStudent(branch, FALSE, semester_no, FALSE,
                                        "ELIGIBLE", NoReason))
                ELSE acc.student
        acc1 == [acc EXCEPT !.student = stu1,
                            !.created_students = @ + (IF isNew THEN 1 ELSE 0)]
        i == PerfIndex(acc.perf, sid, semester_no)
        perf2 == IF i = 0
                 THEN Append(acc.perf,
                        [student_id |-> sid, semester_no |-> semester_no,
                         sgpa |-> row.sgpa,
                         semester_credits |-> semester_credits,
                         backlog_count |-> row.backlog])
                 ELSE [acc.perf EXCEPT ![i].sgpa = row.sgpa,
                                       ![i].semester_credits = semester_credits,
                                       ![i].backlog_count = row.backlog]
        stu2 == [stu1 EXCEPT ![sid].current_semester = Max(@, semester_no)]
    IN  IF stu1[sid].is_lateral_entry /\ semester_no < 3
        THEN [acc1 EXCEPT !.skipped_lateral = @ + 1]
        ELSE [acc1 EXCEPT !.student = refresh_student_metrics(stu2, perf2, sid),
                          !.perf = perf2,
                          !.updated = @ + 1]

\* ImportRow whose lateral-entry test reads semester_no < 2.
ImportRow_LateralBelowTwo(acc, row, branch, semester_no, semester_credits) ==
    LET sid == row.roll_no
        isNew == sid \notin DOMAIN acc.student
        stu1 == IF isNew
                THEN acc.student @@
                     (sid :> NewStudent(branch, FALSE, semester_no, FALSE,
                                        "ELIGIBLE", NoReason))
                ELSE acc.student
        acc1 == [acc EXCEPT !.student = stu1,
                            !.created_students = @ + (IF isNew THEN 1 ELSE 0)]
        i == PerfIndex(acc.perf, sid, semester_no)
        perf2 == IF i = 0
                 THEN Append(acc.perf,
                        [student_id |-> sid, semester_no |-> semester_no,
                         sgpa |-> row.sgpa,
                         semester_credits |-> semester_credits,
                         backlog_count |-> row.backlog])
                 ELSE [acc.perf EXCEPT ![i].sgpa = row.sgpa,
                                       ![i].semester_credits = semester_credits,
                                       ![i].backlog_count = row.backlog]
        stu2 == [stu1 EXCEPT ![sid].current_semester = Max(@, semester_no)]
    IN  IF Upper(stu1[sid].branch) # branch THEN acc1
        ELSE IF stu1[sid].is_lateral_entry /\ semester_no < 2
             THEN [acc1 EXCEPT !.skipped_lateral = @ + 1]
        ELSE [acc1 EXCEPT !.student = refresh_student_metrics(stu2, perf2, sid),
                          !.perf = perf2,
                          !.updated = @ + 1]

\* ImportRow that stores the batch's semester as current_semester.
ImportRow_SetsSemester(acc, row, branch, semester_no, semester_credits) ==
    LET sid == row.roll_no
        isNew == sid \notin DOMAIN acc.student
        stu1 == IF isNew
                THEN acc.student @@
                     (sid :> NewStudent(branch, FALSE, semester_no, FALSE,
                                        "ELIGIBLE", NoReason))
                ELSE acc.student
        acc1 == [acc EXCEPT !.student = stu1,
                            !.created_students = @ + (IF isNew THEN 1 ELSE 0)]
        i == PerfIndex(acc.perf, sid, semester_no)
        perf2 == IF i = 0
                 THEN Append(acc.perf,
                        [student_id |-> sid, semester_no |-> semester_no,
                         sgpa |-> row.sgpa,
                         semester_credits |-> semester_credits,
                         backlog_count |-> row.backlog])
                 ELSE [acc.perf EXCEPT ![i].sgpa = row.sgpa,
                                       ![i].semester_credits = semester_credits,
                                       ![i].backlog_count = row.backlog]
        stu2 == [stu1 EXCEPT ![sid].current_semester = semester_no]
    IN  IF Upper(stu1[sid].branch) # branch THEN acc1
        ELSE IF stu1[sid].is_lateral_entry /\ semester_no < 3
             THEN [acc1 EXCEPT !.skipped_lateral = @ + 1]
        ELSE [acc1 EXCEPT !.student = refresh_student_metrics(stu2, perf2, sid),
                          !.perf = perf2,
                          !.updated = @ + 1]

\* One pass of the row loop of import_sgpa over the accumulated state.
ImportRow(acc, row, branch, semester_no, semester_credits) ==
    LET sid == row.roll_no
        isNew == sid \notin DOMAIN acc.student
        stu1 == IF isNew
                THEN acc.student @@
                     (sid :> NewStudent(branch, FALSE, semester_no, FALSE,
                                        "ELIGIBLE", NoReason))
                ELSE acc.student
        acc1 == [acc EXCEPT !.student = stu1,
                            !.created_students = @ + (IF isNew THEN 1 ELSE 0)]
        i == PerfIndex(acc.perf, sid, semester_no)
        perf2 == IF i = 0
                 THEN Append(acc.perf,
                        [student_id |-> sid, semester_no |-> semester_no,
                         sgpa |-> row.sgpa,
                         semester_credits |-> semester_credits,
                         backlog_count |-> row.backlog])
                 ELSE [acc.perf EXCEPT ![i].sgpa = row.sgpa,
                                       ![i].semester_credits = semester_credits,
                                       ![i].backlog_count = row.backlog]
        stu2 == [stu1 EXCEPT ![sid].current_semester = Max(@, semester_no)]
    IN  IF Upper(stu1[sid].branch) # branch THEN acc1
        ELSE IF stu1[sid].is_lateral_entry /\ semester_no < 3
             THEN [acc1 EXCEPT !.skipped_lateral = @ + 1]
        ELSE [acc1 EXCEPT !.student = refresh_student_metrics(stu2, perf2, sid),
                          !.perf = perf2,
                          !.updated = @ + 1]

\* The row loop of import_sgpa: the state after the rows, taken in order.
RECURSIVE ImportRows(_, _, _, _, _)
ImportRows(acc, rows, branch, semester_no, semester_credits) ==
    IF Len(rows) = 0 THEN acc
    ELSE CHOOSE result \in
           {ImportRows(after, Tail(rows), branch, semester_no, semester_credits) :
              after \in {ImportRow(acc, Head(rows), branch, semester_no,
                                   semester_credits)}} : TRUE

\* import_sgpa turning down negative credit weights only.
import_sgpa_NegativeCreditsOnly(branch, semester_no, semester_credits, is_pdf, rows) ==
    /\ IF ~is_pdf
       THEN /\ flash' = <<"Please upload a valid PDF.">>
            /\ UNCHANGED <<student, semester_performance>>
       ELSE IF semester_credits < 0
       THEN /\ flash' = <<"Semester credits must be greater than 0.">>
            /\ UNCHANGED <<student, semester_performance>>
       ELSE IF Len(rows) = 0
       THEN /\ flash' = <<"No valid rows found in PDF.">>
            /\ UNCHANGED <<student, semester_performance>>
       ELSE \E acc \in {ImportRows([student |-> student,
                                     perf |-> semester_performance,
                                     updated |-> 0, created_students |-> 0,
                                     skipped_lateral |-> 0],
                                    rows, Upper(branch), semester_no,
                                    semester_credits)} :
                /\ student' = acc.student
                /\ semester_performance' = acc.perf
                /\ flash' = <<"Processed", acc.updated, acc.created_students,
                              acc.skipped_lateral>>
    /\ UNCHANGED <<backlog_update, company, application, accounts, mail_server, upload, other_session>>

\* POST /imports/sgpa.  is_pdf: the upload is present and named *.pdf;
\* rows: what parse_pdf_rows extracted from it.
import_sgpa(branch, semester_no, semester_credits, is_pdf, rows) ==
    /\ IF ~is_pdf
       THEN /\ flash' = <<"Please upload a valid PDF.">>
            /\ UNCHANGED <<student, semester_performance>>
       ELSE IF semester_credits <= 0
       THEN /\ flash' = <<"Semester credits must be greater than 0.">>
            /\ UNCHANGED <<student, semester_performance>>
       ELSE IF Len(rows) = 0
       THEN /\ flash' = <<"No valid rows found in PDF.">>
            /\ UNCHANGED <<student, semester_performance>>
       ELSE \E acc \in {ImportRows([student |-> student,
                                     perf |-> semester_performance,
                                     updated |-> 0, created_students |-> 0,
                                     skipped_lateral |-> 0],
                                    rows, Upper(branch), semester_no,
                                    semester_credits)} :
                /\ student' = acc.student
                /\ semester_performance' = acc.perf
                /\ flash' = <<"Processed", acc.updated, acc.created_students,
                              acc.skipped_lateral>>
    /\ UNCHANGED <<backlog_update, company, application, accounts, mail_server, upload, other_session>>

\* update_backlog reading old_backlog after the new value is stored.
update_backlog_ReadsOldAfterWrite(sid, semester_no, new_backlog) ==
    /\ sid \in DOMAIN student
    /\ LET i == PerfIndex(semester_performance, sid, semester_no) IN
       IF i = 0
       THEN /\ flash' = <<"Semester record not found. Import SGPA first.">>
            /\ UNCHANGED <<student, semester_performance, backlog_update>>
       ELSE LET perf2 == [semester_performance EXCEPT
                            ![i].backlog_count = new_backlog]
            IN  /\ Len(backlog_update) < MaxLedger
                /\ semester_performance' = perf2
                /\ backlog_update' = Append(backlog_update,
                     [student_id |-> sid, semester_no |-> semester_no,
                      old_backlog |-> perf2[i].backlog_count,
                      new_backlog |-> new_backlog])
                /\ student' = refresh_student_metrics(student, perf2, sid)
                /\ flash' = <<"Backlog updated and CGPA/backlog metrics recalculated.">>
    /\ UNCHANGED <<company, application, accounts, mail_server, upload, other_session>>

\* POST /students/<id>/backlog
update_backlog(sid, semester_no, new_backlog) ==
    /\ sid \in DOMAIN student
    /\ LET i == PerfIndex(semester_performance, sid, semester_no) IN
       IF i = 0
       THEN /\ flash' = <<"Semester record not found. Import SGPA first.">>
            /\ UNCHANGED <<student, semester_performance, backlog_update>>
       ELSE LET perf2 == [semester_performance EXCEPT
                            ![i].backlog_count = new_backlog]
            IN  /\ Len(backlog_update) < MaxLedger
                /\ semester_performance' = perf2
                /\ backlog_update' = Append(backlog_update,
                     [student_id |-> sid, semester_no |-> semester_no,
                      old_backlog |-> semester_performance[i].backlog_count,
                      new_backlog |-> new_backlog])
                /\ student' = refresh_student_metrics(student, perf2, sid)
                /\ flash' = <<"Backlog updated and CGPA/backlog metrics recalculated.">>
    /\ UNCHANGED <<company, application, accounts, mail_server, upload, other_session>>

(***************************************************************************)
(* The SGPA PDF parser.  A PDF is the sequence of its tables, page after   *)
(* page; a table is a sequence of rows, the first one the header; a row is *)
(* a sequence of cell texts.  Column indices count from 1 and 0 stands for *)
(* None.  SGPA is read in hundredths.  The name column is located and read *)
(* by the code but no modelled field depends on it.                        *)
(***************************************************************************)
\* next((i for i, c in enumerate(header) if <one of words> in c), None)
FirstColumn(header, words) ==
    LET hits == {i \in 1..Len(header) :
                   \E w \in words : str_contains(header[i], w)}
    IN  IF hits = {} THEN 0 ELSE CHOOSE i \in hits : \A j \in hits : i <= j

\* ^[A-Za-z0-9][A-Za-z0-9/-]{4,}$
roll_re(t) ==
    /\ Len(t) >= 5
    /\ t[1] \in Letters \cup Range(DecimalDigits)
    /\ \A i \in 2..Len(t) : t[i] \in Letters \cup Range(DecimalDigits) \cup {"/", "-"}

\* sgpa_re taking any decimals after 10.
sgpa_re_AnyDecimalsOfTen(t) ==
    \/ /\ Len(t) >= 2
       /\ t[1] = "1" /\ t[2] = "0"
       /\ \/ Len(t) = 2
          \/ /\ Len(t) >= 4
             /\ t[3] = "."
             /\ \A i \in 4..Len(t) : t[i] \in Range(DecimalDigits)
    \/ /\ Len(t) \in {1, 3, 4}
       /\ t[1] \in Range(DecimalDigits)
       /\ Len(t) > 1 => t[2] = "."
       /\ \A i \in 3..Len(t) : t[i] \in Range(DecimalDigits)

\* ^(10(?:\.0+)?|[0-9](?:\.\d{1,2})?)$
sgpa_re(t) ==
    \/ /\ Len(t) >= 2
       /\ t[1] = "1" /\ t[2] = "0"
       /\ \/ Len(t) = 2
          \/ /\ Len(t) >= 4
             /\ t[3] = "."
             /\ \A i \in 4..Len(t) : t[i] = "0"
    \/ /\ Len(t) \in {1, 3, 4}
       /\ t[1] \in Range(DecimalDigits)
       /\ Len(t) > 1 => t[2] = "."
       /\ \A i \in 3..Len(t) : t[i] \in Range(DecimalDigits)

\* float(sgpa_raw) of a text sgpa_re took, in hundredths; digits past the
\* second decimal are those of 10.000..., or of a mutant's 10.5.
float_of(t) ==
    LET whole == IF Len(t) >= 2 /\ t[2] # "." THEN 2 ELSE 1
        tenths == IF Len(t) >= whole + 2 THEN DigitValue(t[whole + 2]) ELSE 0
        hundredths == IF Len(t) >= whole + 3 THEN DigitValue(t[whole + 3]) ELSE 0
    IN  100 * int_of(SubSeq(t, 1, whole)) + 10 * tenths + hundredths

\* The body of "for row in table[1:]" for one row: what it appends, and
\* whether it raises (IndexError of row[roll_idx], ValueError of int(b)).
ParseRow(row, roll_idx, sgpa_idx, backlog_idx) ==
    LET nothing == [raised |-> FALSE, emitted |-> << >>]
        raises == [raised |-> TRUE, emitted |-> << >>]
    IN  IF Len(row) = 0 \/ Len(row) < sgpa_idx THEN nothing
        ELSE IF Len(row) < roll_idx THEN raises
        ELSE LET roll_no == str_replace_spaces(str_upper(str_strip(row[roll_idx])))
                 sgpa_raw == str_strip(row[sgpa_idx])
                 b == IF backlog_idx # 0 /\ Len(row) >= backlog_idx
                      THEN str_strip(row[backlog_idx]) ELSE << >>
             IN  IF Len(roll_no) = 0 \/ Len(sgpa_raw) = 0 THEN nothing
                 ELSE IF ~roll_re(roll_no) THEN nothing
                 ELSE IF ~sgpa_re(sgpa_raw) THEN nothing
                 ELSE IF str_isdigit(b) /\ \E i \in 1..Len(b) : b[i] \in SuperscriptDigits
                      THEN raises
                 ELSE [raised |-> FALSE,
                       emitted |-> <<[roll_no |-> roll_no,
                                      sgpa |-> float_of(sgpa_raw),
                                      backlog |-> IF str_isdigit(b)
                                                  THEN int_of(b) ELSE 0]>>]

\* The row loop of one table, from extracted on.
RECURSIVE ParseRows(_, _, _, _, _)
ParseRows(extracted, rows, roll_idx, sgpa_idx, backlog_idx) ==
    IF Len(rows) = 0 THEN [raised |-> FALSE, rows |-> extracted]
    ELSE LET r == ParseRow(Head(rows), roll_idx, sgpa_idx, backlog_idx)
         IN  IF r.raised THEN [raised |-> TRUE, rows |-> << >>]
             ELSE ParseRows(extracted \o r.emitted, Tail(rows),
                            roll_idx, sgpa_idx, backlog_idx)

\* The body of "for table in tables" for one table.
ParseTable(extracted, table) ==
    IF Len(table) < 2 THEN [raised |-> FALSE, rows |-> extracted]
    ELSE LET header == [i \in 1..Len(table[1]) |-> str_lower(str_strip(table[1][i]))]
             roll_idx == FirstColumn(header, {<<"r", "o", "l", "l">>,
                                              <<"e", "n", "r", "o", "l", "l">>})
             sgpa_idx == FirstColumn(header, {<<"s", "g", "p", "a">>})
             backlog_idx == FirstColumn(header,
                              {<<"b", "a", "c", "k", "l", "o", "g">>, <<"k", "t">>})
         IN  IF roll_idx = 0 \/ sgpa_idx = 0
             THEN [raised |-> FALSE, rows |-> extracted]
             ELSE ParseRows(extracted, Tail(table), roll_idx, sgpa_idx, backlog_idx)

RECURSIVE ParseTables(_, _)
ParseTables(extracted, tables) ==
    IF Len(tables) = 0 THEN [raised |-> FALSE, rows |-> extracted]
    ELSE LET r == ParseTable(extracted, Head(tables))
         IN  IF r.raised THEN r ELSE ParseTables(r.rows, Tail(tables))

\* parse_pdf_rows: the rows extracted, or raised when an exception leaves it.
parse_pdf_rows(tables) == ParseTables(<< >>, tables)

\* POST /imports/sgpa with the PDF of the request: import_sgpa where
\* parse_pdf_rows is what reads the file.  An exception leaving the parser
\* leaves the view, and Flask answers 500 with nothing committed.
import_pdf(branch, semester_no, semester_credits) ==
    LET parsed == parse_pdf_rows(upload.tables) IN
    IF upload.present /\ semester_credits > 0 /\ parsed.raised
    THEN /\ flash' = <<"500 Internal Server Error">>
         /\ UNCHANGED <<store, accounts, mail_server, upload, other_session>>
    ELSE import_sgpa(branch, semester_no, semester_credits, upload.present,
                     IF upload.present /\ semester_credits > 0
                     THEN parsed.rows ELSE << >>)

(***************************************************************************)
(* Companies and the EligibilityEvaluator                                  *)
(***************************************************************************)
\* eligible_branches is held as the list of its comma-separated items,
\* each already trimmed; the empty text is the single empty item.
\* Company.branch_list
branch_list(c) ==
    LET text == IF c.eligible_branches = <<"">> THEN <<"ALL">>
                ELSE c.eligible_branches
        filled(item) == item # ""
    IN  IF text = <<"ALL">> THEN <<"ALL">> ELSE SelectSeq(text, filled)

InList(x, list) == \E i \in 1..Len(list) : list[i] = x

\* POST /companies
companies(name, eligible_branches, min_cgpa, max_backlogs, selection_policy, template_ok) ==
    /\ name \notin DOMAIN company
    /\ IF selection_policy \notin SELECTION_POLICIES
       THEN /\ flash' = <<"Invalid company selection policy.">>
            /\ UNCHANGED company
       ELSE IF ~template_ok
       THEN /\ flash' = <<"Invalid export template JSON.">>
            /\ UNCHANGED company
       ELSE /\ company' = company @@
                 (name :> [eligible_branches |->
                              IF eligible_branches = <<"">> THEN <<"ALL">>
                              ELSE eligible_branches,
                           min_cgpa |-> min_cgpa,
                           max_backlogs |-> max_backlogs,
                           selection_policy |-> selection_policy])
            /\ flash' = <<"Company added.">>
    /\ UNCHANGED <<student, semester_performance, backlog_update, application,
                   accounts, mail_server, upload, other_session>>

\* allowed_for_company with the CGPA threshold consulted before the
\* BLOCKED_BY_POLICY status.
allowed_for_company_CgpaFirst(s, cid, comp) ==
    IF s.eligibility_status = "EXTERNAL_PLACED"
    THEN [allowed |-> FALSE, message |-> <<"already placed externally">>]
    ELSE IF s.eligibility_status = "EXTERNAL_INTERN"
    THEN [allowed |-> FALSE, message |-> <<"already interned externally">>]
    ELSE IF s.eligibility_status = "CAMPUS_INTERN"
    THEN [allowed |-> FALSE,
          message |-> <<"already interned via campus placement">>]
    ELSE IF s.cgpa < comp[cid].min_cgpa
    THEN [allowed |-> FALSE,
          message |-> <<"CGPA below min", s.cgpa, comp[cid].min_cgpa>>]
    ELSE IF s.eligibility_status = "BLOCKED_BY_POLICY"
    THEN [allowed |-> FALSE,
          message |-> IF s.block_reason # NoReason THEN s.block_reason
                      ELSE <<"Blocked after selection in", "policy">>]
    ELSE IF ~InList("ALL", branch_list(comp[cid]))
            /\ ~InList(s.branch, branch_list(comp[cid]))
    THEN [allowed |-> FALSE, message |-> <<"branch not eligible", s.branch, cid>>]
    ELSE IF s.total_backlogs > comp[cid].max_backlogs
    THEN [allowed |-> FALSE,
          message |-> <<"Backlogs exceed max", s.total_backlogs,
                        comp[cid].max_backlogs>>]
    ELSE [allowed |-> TRUE, message |-> <<"Eligible">>]

\* allowed_for_company(student, company): s is the student row, cid the
\* company's key, comp the company table.
allowed_for_company(s, cid, comp) ==
    IF s.eligibility_status = "EXTERNAL_PLACED"
    THEN [allowed |-> FALSE, message |-> <<"already placed externally">>]
    ELSE IF s.eligibility_status = "EXTERNAL_INTERN"
    THEN [allowed |-> FALSE, message |-> <<"already interned externally">>]
    ELSE IF s.eligibility_status = "CAMPUS_INTERN"
    THEN [allowed |-> FALSE,
          message |-> <<"already interned via campus placement">>]
    ELSE IF s.eligibility_status = "BLOCKED_BY_POLICY"
    THEN LET by == IF s.blocked_by_company_id # NULL
                   THEN s.blocked_by_company_id ELSE "policy"
         IN  [allowed |-> FALSE,
              message |-> IF s.block_reason # NoReason THEN s.block_reason
                          ELSE <<"Blocked after selection in", by>>]
    ELSE IF ~InList("ALL", branch_list(comp[cid]))
            /\ ~InList(s.branch, branch_list(comp[cid]))
    THEN [allowed |-> FALSE, message |-> <<"branch not eligible", s.branch, cid>>]
    ELSE IF s.cgpa < comp[cid].min_cgpa
    THEN [allowed |-> FALSE,
          message |-> <<"CGPA below min", s.cgpa, comp[cid].min_cgpa>>]
    ELSE IF s.total_backlogs > comp[cid].max_backlogs
    THEN [allowed |-> FALSE,
          message |-> <<"Backlogs exceed max", s.total_backlogs,
                        comp[cid].max_backlogs>>]
    ELSE [allowed |-> TRUE, message |-> <<"Eligible">>]

\* applications with the redirect after the denial message left out: the
\* request goes on to the remaining checks and the insert.
applications_DenialFallsThrough(sid, cid) ==
    /\ sid \in DOMAIN student
    /\ cid \in DOMAIN company
    /\ LET existing == \E i \in 1..Len(application) :
                          /\ application[i].student_id = sid
                          /\ application[i].company_id = cid
       IN  IF existing
           THEN /\ flash' = <<"Student already applied to this company.">>
                /\ UNCHANGED application
           ELSE IF ~student[sid].resume_link
           THEN /\ flash' = <<"No resume link found for this student.">>
                /\ UNCHANGED application
           ELSE /\ application' = Append(application,
                     [student_id |-> sid, company_id |-> cid,
                      status |-> "APPLIED",
                      applied_at |-> Len(application) + 1])
                /\ flash' = <<"Application submitted.">>
    /\ UNCHANGED <<student, semester_performance, backlog_update, company,
                   accounts, mail_server, upload, other_session>>

\* applications without the look-up of an existing application.
applications_NoDuplicateCheck(sid, cid) ==
    /\ sid \in DOMAIN student
    /\ cid \in DOMAIN company
    /\ LET verdict == allowed_for_company(student[sid], cid, company)
       IN  IF ~verdict.allowed
           THEN /\ flash' = <<"Application blocked", verdict.message>>
                /\ UNCHANGED application
           ELSE IF ~student[sid].resume_link
           THEN /\ flash' = <<"No resume link found for this student.">>
                /\ UNCHANGED application
           ELSE /\ application' = Append(application,
                     [student_id |-> sid, company_id |-> cid,
                      status |-> "APPLIED",
                      applied_at |-> Len(application) + 1])
                /\ flash' = <<"Application submitted.">>
    /\ UNCHANGED <<student, semester_performance, backlog_update, company,
                   accounts, mail_server, upload, other_session>>

\* applications with the duplicate check filtered by student only.
applications_ExistingByStudent(sid, cid) ==
    /\ sid \in DOMAIN student
    /\ cid \in DOMAIN company
    /\ LET verdict == allowed_for_company(student[sid], cid, company)
           existing == \E i \in 1..Len(application) :
                          application[i].student_id = sid
       IN  IF ~verdict.allowed
           THEN /\ flash' = <<"Application blocked", verdict.message>>
                /\ UNCHANGED application
           ELSE IF existing
           THEN /\ flash' = <<"Student already applied to this company.">>
                /\ UNCHANGED application
           ELSE IF ~student[sid].resume_link
           THEN /\ flash' = <<"No resume link found for this student.">>
                /\ UNCHANGED application
           ELSE /\ application' = Append(application,
                     [student_id |-> sid, company_id |-> cid,
                      status |-> "APPLIED",
                      applied_at |-> Len(application) + 1])
                /\ flash' = <<"Application submitted.">>
    /\ UNCHANGED <<student, semester_performance, backlog_update, company,
                   accounts, mail_server, upload, other_session>>

\* POST /applications.  applied_at is the creation instant; instants are
\* counted, each application being created after all earlier ones.
applications(sid, cid) ==
    /\ sid \in DOMAIN student
    /\ cid \in DOMAIN company
    /\ LET verdict == allowed_for_company(student[sid], cid, company)
           existing == \E i \in 1..Len(application) :
                          /\ application[i].student_id = sid
                          /\ application[i].company_id = cid
       IN  IF ~verdict.allowed
           THEN /\ flash' = <<"Application blocked", verdict.message>>
                /\ UNCHANGED application
           ELSE IF existing
           THEN /\ flash' = <<"Student already applied to this company.">>
                /\ UNCHANGED application
           ELSE IF ~student[sid].resume_link
           THEN /\ flash' = <<"No resume link found for this student.">>
                /\ UNCHANGED application
           ELSE /\ application' = Append(application,
                     [student_id |-> sid, company_id |-> cid,
                      status |-> "APPLIED",
                      applied_at |-> Len(application) + 1])
                /\ flash' = <<"Application submitted.">>
    /\ UNCHANGED <<student, semester_performance, backlog_update, company,
                   accounts, mail_server, upload, other_session>>

(***************************************************************************)
(* BlockingPolicyResolver                                                  *)
(***************************************************************************)
\* The applications of sid that are SELECTED at a BLOCKING company.
SelectedBlocking(apps, comp, sid) ==
    {i \in 1..Len(apps) : /\ apps[i].student_id = sid
                          /\ apps[i].status = "SELECTED"
                          /\ comp[apps[i].company_id].selection_policy = "BLOCKING"}

\* recompute_blocking_status with the query ordered by applied_at ascending.
recompute_blocking_status_Oldest(stu, apps, comp, sid) ==
    LET found == SelectedBlocking(apps, comp, sid) IN
    IF found # {}
    THEN LET selected_blocking ==
                 CHOOSE i \in found :
                     \A j \in found : apps[i].applied_at <= apps[j].applied_at
         IN  [stu EXCEPT
                ![sid].eligibility_status = "BLOCKED_BY_POLICY",
                ![sid].blocked_by_company_id = apps[selected_blocking].company_id,
                ![sid].block_reason =
                    <<"Selected in blocking company", apps[selected_blocking].company_id>>]
    ELSE IF stu[sid].eligibility_status = "BLOCKED_BY_POLICY"
         THEN [stu EXCEPT ![sid].eligibility_status = "ELIGIBLE",
                          ![sid].blocked_by_company_id = NULL,
                          ![sid].block_reason = NoReason]
         ELSE stu

\* recompute_blocking_status reverting only a block that names a company.
recompute_blocking_status_RevertsNamedOnly(stu, apps, comp, sid) ==
    LET found == SelectedBlocking(apps, comp, sid) IN
    IF found # {}
    THEN LET selected_blocking ==
                 CHOOSE i \in found :
                     \A j \in found : apps[i].applied_at >= apps[j].applied_at
         IN  [stu EXCEPT
                ![sid].eligibility_status = "BLOCKED_BY_POLICY",
                ![sid].blocked_by_company_id = apps[selected_blocking].company_id,
                ![sid].block_reason =
                    <<"Selected in blocking company", apps[selected_blocking].company_id>>]
    ELSE IF /\ stu[sid].eligibility_status = "BLOCKED_BY_POLICY"
            /\ stu[sid].blocked_by_company_id # NULL
         THEN [stu EXCEPT ![sid].eligibility_status = "ELIGIBLE",
                          ![sid].blocked_by_company_id = NULL,
                          ![sid].block_reason = NoReason]
         ELSE stu

\* The student table after recompute_blocking_status(student sid).
recompute_blocking_status(stu, apps, comp, sid) ==
    LET found == SelectedBlocking(apps, comp, sid) IN
    IF found # {}
    THEN LET selected_blocking ==
                 CHOOSE i \in found :
                     \A j \in found : apps[i].applied_at >= apps[j].applied_at
         IN  [stu EXCEPT
                ![sid].eligibility_status = "BLOCKED_BY_POLICY",
                ![sid].blocked_by_company_id = apps[selected_blocking].company_id,
                ![sid].block_reason =
                    <<"Selected in blocking company", apps[selected_blocking].company_id>>]
    ELSE IF stu[sid].eligibility_status = "BLOCKED_BY_POLICY"
         THEN [stu EXCEPT ![sid].eligibility_status = "ELIGIBLE",
                          ![sid].blocked_by_company_id = NULL,
                          ![sid].block_reason = NoReason]
         ELSE stu

\* update_eligibility_status leaving the blocking-company reference alone.
update_eligibility_status_KeepsReference(sid, status, note) ==
    /\ sid \in DOMAIN student
    /\ IF status \notin ELIGIBILITY_STATUSES
       THEN /\ flash' = <<"Invalid eligibility status.">>
            /\ UNCHANGED student
       ELSE /\ student' =
                 IF status = "BLOCKED_BY_POLICY"
                 THEN [student EXCEPT
                         ![sid].eligibility_status = status,
                         ![sid].block_reason =
                             IF note # NoReason THEN note
                             ELSE <<"Manually blocked by placement policy.">>]
                 ELSE [student EXCEPT
                         ![sid].eligibility_status = status,
                         ![sid].block_reason = note]
            /\ flash' = <<"Eligibility status updated.">>
    /\ UNCHANGED <<semester_performance, backlog_update, company, application,
                   accounts, mail_server, upload, other_session>>

\* POST /students/<id>/eligibility-status
update_eligibility_status(sid, status, note) ==
    /\ sid \in DOMAIN student
    /\ IF status \notin ELIGIBILITY_STATUSES
       THEN /\ flash' = <<"Invalid eligibility status.">>
            /\ UNCHANGED student
       ELSE /\ student' =
                 IF status = "BLOCKED_BY_POLICY"
                 THEN [student EXCEPT
                         ![sid].eligibility_status = status,
                         ![sid].block_reason =
                             IF note # NoReason THEN note
                             ELSE <<"Manually blocked by placement policy.">>]
                 ELSE [student EXCEPT
                         ![sid].eligibility_status = status,
                         ![sid].block_reason = note,
                         ![sid].blocked_by_company_id = NULL]
            /\ flash' = <<"Eligibility status updated.">>
    /\ UNCHANGED <<semester_performance, backlog_update, company, application,
                   accounts, mail_server, upload, other_session>>

(***************************************************************************)
(* Notification and one-time codes                                         *)
(***************************************************************************)
\* The NotificationLog table after send_email; outcome is what the SMTP
\* exchange does when a mail server is configured.
send_email(log, uid, subject, outcome) ==
    Append(log, [user_id |-> uid, subject |-> subject,
                 status |-> IF ~mail_server THEN "NO_MAIL_SERVER_CONFIGURED"
                            ELSE outcome])

Delivered(outcome) == mail_server /\ outcome = "SENT"

\* The OTPToken table after issue_otp(user, purpose) drew the code.
issue_otp(tokens, uid, purpose, code) ==
    Append([i \in 1..Len(tokens) |->
              IF tokens[i].user_id = uid /\ tokens[i].purpose = purpose
                 /\ ~tokens[i].consumed
              THEN [tokens[i] EXCEPT !.consumed = TRUE] ELSE tokens[i]],
           [user_id |-> uid, code |-> code, purpose |-> purpose,
            consumed |-> FALSE, expired |-> FALSE])

\* User.query.filter_by(student_id=sid, role="STUDENT").first()
StudentUser(sid) ==
    {e \in DOMAIN user : user[e].student_id = sid /\ user[e].role = "STUDENT"}

\* update_application_status committing only after the notification went
\* out, so that a failed delivery leaves the change unsaved.
update_application_status_CommitsAfterDelivery(application_id, status, outcome) ==
    /\ application_id \in 1..Len(application)
    /\ IF status \notin APPLICATION_STATUSES
       THEN /\ flash' = <<"Invalid status.">>
            /\ UNCHANGED <<student, application, notification_log>>
       ELSE LET apps2 == [application EXCEPT ![application_id].status = status]
                sid == application[application_id].student_id
                student_user == StudentUser(sid)
            IN  /\ application' = IF student_user # {} /\ ~Delivered(outcome)
                                  THEN application ELSE apps2
                /\ student' = IF student_user # {} /\ ~Delivered(outcome)
                              THEN student
                              ELSE recompute_blocking_status(student, apps2, company, sid)
                /\ IF student_user # {}
                   THEN /\ Len(notification_log) < MaxLog
                        /\ notification_log' =
                             send_email(notification_log,
                                        CHOOSE e \in student_user : TRUE,
                                        "Application Status Updated", outcome)
                        /\ flash' = IF Delivered(outcome)
                                    THEN <<"Status updated and email notification sent.">>
                                    ELSE <<"Status updated but email delivery failed.">>
                   ELSE /\ UNCHANGED notification_log
                        /\ flash' = <<"Status updated. No student user/email linked.">>
    /\ UNCHANGED <<semester_performance, backlog_update, company, user,
                   otp_token, session, mail_server, upload, other_session>>

\* POST /applications/<id>/status
update_application_status(application_id, status, outcome) ==
    /\ application_id \in 1..Len(application)
    /\ IF status \notin APPLICATION_STATUSES
       THEN /\ flash' = <<"Invalid status.">>
            /\ UNCHANGED <<student, application, notification_log>>
       ELSE LET apps2 == [application EXCEPT ![application_id].status = status]
                sid == application[application_id].student_id
                student_user == StudentUser(sid)
            IN  /\ application' = apps2
                /\ student' = recompute_blocking_status(student, apps2, company, sid)
                /\ IF student_user # {}
                   THEN /\ Len(notification_log) < MaxLog
                        /\ notification_log' =
                             send_email(notification_log,
                                        CHOOSE e \in student_user : TRUE,
                                        "Application Status Updated", outcome)
                        /\ flash' = IF Delivered(outcome)
                                    THEN <<"Status updated and email notification sent.">>
                                    ELSE <<"Status updated but email delivery failed.">>
                   ELSE /\ UNCHANGED notification_log
                        /\ flash' = <<"Status updated. No student user/email linked.">>
    /\ UNCHANGED <<semester_performance, backlog_update, company, user,
                   otp_token, session, mail_server, upload, other_session>>

(***************************************************************************)
(* Registration                                                            *)
(***************************************************************************)
ROLES == {"ADMIN", "PLACEMENT_COORDINATOR", "STUDENT"}

\* POST /auth/register.  as_admin: the requester is logged in as ADMIN;
\* long_enough: the password has at least 8 characters; has_name: the name
\* field is filled; roll_no and branch are "" when left empty.
register(as_admin, email, password, long_enough, role_in, roll_no, has_name, branch, lateral, code, outcome) ==
    LET role == IF as_admin THEN role_in ELSE "STUDENT" IN
    /\ IF role \notin ROLES
       THEN /\ flash' = <<"Invalid role.">>
            /\ UNCHANGED <<student, accounts>>
       ELSE IF email \in DOMAIN user
       THEN /\ flash' = <<"Email already registered.">>
            /\ UNCHANGED <<student, accounts>>
       ELSE IF ~long_enough
       THEN /\ flash' = <<"Password should be at least 8 characters.">>
            /\ UNCHANGED <<student, accounts>>
       ELSE IF role = "STUDENT" /\ (roll_no = "" \/ ~has_name \/ branch = "")
       THEN /\ flash' = <<"Roll no, name, and branch are required.">>
            /\ UNCHANGED <<student, accounts>>
       ELSE /\ role = "STUDENT" => \A e \in DOMAIN user : user[e].student_id # roll_no
            /\ Len(notification_log) < MaxLog
            /\ student' = IF role = "STUDENT" /\ roll_no \notin DOMAIN student
                          THEN student @@
                               (roll_no :> NewStudent(Upper(branch), lateral, 1, FALSE,
                                                      "ELIGIBLE", NoReason))
                          ELSE student
            /\ user' = user @@
                 (email :> [password |-> password, role |-> role,
                            is_verified |-> FALSE,
                            student_id |-> IF role = "STUDENT" THEN roll_no
                                           ELSE NULL])
            /\ otp_token' = issue_otp(otp_token, email, "VERIFY_EMAIL", code)
            /\ notification_log' =
                 send_email(notification_log, email,
                            "Verify your Placement Portal account", outcome)
            /\ session' = [session EXCEPT !.pending_verify_user_id = email]
            /\ flash' = IF Delivered(outcome)
                        THEN <<"Account created. OTP sent to email.">>
                        ELSE <<"Account created. OTP:", code>>
    /\ UNCHANGED <<semester_performance, backlog_update, company, application,
                   mail_server, upload, other_session>>

(***************************************************************************)
(* Login.  Tokens are kept in the order of created_at; expired says that   *)
(* utcnow() has passed the token's expires_at.                             *)
(***************************************************************************)
\* The token verify_otp's query returns: the newest unconsumed one of
\* (user, purpose), 0 for None.
ActiveToken(tokens, uid, purpose) ==
    LET cand == {i \in 1..Len(tokens) :
                   /\ tokens[i].user_id = uid
                   /\ tokens[i].purpose = purpose
                   /\ ~tokens[i].consumed}
    IN  IF cand = {} THEN 0 ELSE CHOOSE i \in cand : \A j \in cand : j <= i

\* verify_otp without the test of is_expired.
verify_otp_IgnoresExpiry(tokens, uid, purpose, code) ==
    LET i == ActiveToken(tokens, uid, purpose) IN
    IF i = 0 THEN [ok |-> FALSE, msg |-> "No active OTP found.", tokens |-> tokens]
    ELSE IF tokens[i].code # code
    THEN [ok |-> FALSE, msg |-> "Invalid OTP.", tokens |-> tokens]
    ELSE [ok |-> TRUE, msg |-> "OTP verified.",
          tokens |-> [tokens EXCEPT ![i].consumed = TRUE]]

\* verify_otp(user, purpose, code): the answer and the OTPToken table after.
verify_otp(tokens, uid, purpose, code) ==
    LET i == ActiveToken(tokens, uid, purpose) IN
    IF i = 0 THEN [ok |-> FALSE, msg |-> "No active OTP found.", tokens |-> tokens]
    ELSE IF tokens[i].expired
    THEN [ok |-> FALSE, msg |-> "OTP expired.", tokens |-> tokens]
    ELSE IF tokens[i].code # code
    THEN [ok |-> FALSE, msg |-> "Invalid OTP.", tokens |-> tokens]
    ELSE [ok |-> TRUE, msg |-> "OTP verified.",
          tokens |-> [tokens EXCEPT ![i].consumed = TRUE]]

\* POST /auth/verify-email
verify_email(code) ==
    /\ IF session.pending_verify_user_id = NULL
       THEN /\ flash' = <<"No pending verification.">>
            /\ UNCHANGED accounts
       ELSE LET uid == session.pending_verify_user_id
                r == verify_otp(otp_token, uid, "VERIFY_EMAIL", code)
            IN  IF ~r.ok
                THEN /\ flash' = <<r.msg>>
                     /\ UNCHANGED accounts
                ELSE /\ otp_token' = r.tokens
                     /\ user' = [user EXCEPT ![uid].is_verified = TRUE]
                     /\ session' = [session EXCEPT !.pending_verify_user_id = NULL]
                     /\ flash' = <<"Email verified. Please login.">>
                     /\ UNCHANGED notification_log
    /\ UNCHANGED <<store, mail_server, upload, other_session>>

\* POST /auth/login; code is the one issue_otp draws.
login(email, password, code, outcome) ==
    /\ IF email \notin DOMAIN user \/ user[email].password # password
       THEN /\ flash' = <<"Invalid credentials.">>
            /\ UNCHANGED accounts
       ELSE IF ~user[email].is_verified
       THEN /\ session' = [session EXCEPT !.pending_verify_user_id = email]
            /\ flash' = <<"Verify your email first.">>
            /\ UNCHANGED <<user, otp_token, notification_log>>
       ELSE /\ Len(notification_log) < MaxLog
            /\ otp_token' = issue_otp(otp_token, email, "LOGIN", code)
            /\ notification_log' =
                 send_email(notification_log, email, "Your login OTP", outcome)
            /\ session' = [session EXCEPT !.pending_login_user_id = email]
            /\ flash' = IF Delivered(outcome) THEN <<"OTP sent to email.">>
                        ELSE IF mail_server
                        THEN <<"OTP email failed to send; use OTP:", code>>
                        ELSE <<"Mail server not configured; use OTP:", code>>
            /\ UNCHANGED user
    /\ UNCHANGED <<store, mail_server, upload, other_session>>

\* POST /auth/verify-login
verify_login(code) ==
    /\ IF session.pending_login_user_id = NULL
       THEN /\ flash' = <<"No pending login.">>
            /\ UNCHANGED accounts
       ELSE LET uid == session.pending_login_user_id
                r == verify_otp(otp_token, uid, "LOGIN", code)
            IN  IF ~r.ok
                THEN /\ flash' = <<r.msg>>
                     /\ UNCHANGED accounts
                ELSE /\ otp_token' = r.tokens
                     /\ session' = [session EXCEPT !.user_id = uid,
                                                   !.pending_login_user_id = NULL]
                     /\ flash' = <<"Logged in successfully.">>
                     /\ UNCHANGED <<user, notification_log>>
    /\ UNCHANGED <<store, mail_server, upload, other_session>>

\* GET /auth/logout
logout ==
    /\ session' = NoSession
    /\ flash' = <<"Logged out.">>
    /\ UNCHANGED <<store, user, otp_token, notification_log, mail_server,
                   upload, other_session>>

\* The requests that follow come from the other browser.
switch_browser ==
    /\ session' = other_session
    /\ other_session' = session
    /\ UNCHANGED <<store, user, otp_token, notification_log, mail_server,
                   upload, flash>>

\* Time passes beyond expires_at of token i (OTPToken.is_expired): every
\* token lives ten minutes, so the tokens expire in the order of creation.
token_expires(i) ==
    /\ i \in 1..Len(otp_token)
    /\ ~otp_token[i].expired
    /\ \A j \in 1..(i - 1) : otp_token[j].expired
    /\ otp_token' = [otp_token EXCEPT ![i].expired = TRUE]
    /\ UNCHANGED <<store, user, notification_log, session, mail_server,
                   upload, other_session, flash>>

(***************************************************************************)
(* Initial state and specifications                                        *)
(***************************************************************************)
DefaultAdmin ==
    [password |-> "admin123", role |-> "ADMIN", is_verified |-> TRUE,
     student_id |-> NULL]

\* The store after bootstrap_database() on an empty database, default
\* environment (no MAIL_SERVER).
Init ==
    /\ student = << >>
    /\ semester_performance = << >>
    /\ backlog_update = << >>
    /\ company = << >>
    /\ application = << >>
    /\ user = ("admin@placement.local" :> DefaultAdmin)
    /\ otp_token = << >>
    /\ notification_log = << >>
    /\ session = [user_id |-> NULL, pending_verify_user_id |-> NULL,
                  pending_login_user_id |-> NULL]
    /\ mail_server = FALSE
    /\ upload = NoUpload
    /\ other_session = NoSession
    /\ flash = <<"">>

\* The rows parse_pdf_rows can hand to an import.
ImportRowsOver(rolls, sgpas, backlogs) ==
    SeqsUpTo([roll_no : rolls, sgpa : sgpas, backlog : backlogs], MaxRows)

\* Every request handler, its form fields drawn from the domains D.  An
\* import that is turned down never opens the file, so its rows are not
\* enumerated.
Handlers(D) ==
    \/ \E r \in D.rolls, b \in D.branches, lat \in D.laterals, sem \in D.start_sems,
          res \in D.resumes, st \in D.new_statuses, note \in D.notes :
            students(r, b, lat, sem, res, st, note)
    \/ \E r \in D.rolls, has_link \in D.link_flags : update_resume_link(r, has_link)
    \/ \E b \in D.branches, sem \in D.sems, cr \in D.credits, is_pdf \in D.pdf_flags :
       \E rows \in IF is_pdf /\ cr > 0
                   THEN ImportRowsOver(D.rolls, D.sgpas, D.backlogs)
                   ELSE {<< >>} :
            import_sgpa(b, sem, cr, is_pdf, rows)
    \/ \E r \in D.rolls, sem \in D.sems, nb \in D.new_backlogs :
            update_backlog(r, sem, nb)
    \/ \E c \in D.companies, eb \in D.branch_texts, mc \in D.min_cgpas,
          mb \in D.max_backlogs, pol \in D.policies, ok \in D.template_flags :
            companies(c, eb, mc, mb, pol, ok)
    \/ \E r \in D.rolls, c \in D.companies : applications(r, c)
    \/ \E r \in D.rolls, st \in D.set_statuses, note \in D.notes :
            update_eligibility_status(r, st, note)
    \/ \E a \in 1..Len(application), st \in D.app_statuses, out \in D.outcomes :
            update_application_status(a, st, out)
    \/ \E adm \in D.admin_flags, e \in D.emails, long \in D.long_flags,
          role \in D.roles, r \in D.reg_rolls, nm \in D.name_flags,
          b \in D.reg_branches, lat \in D.laterals, code \in D.codes,
          out \in D.outcomes :
            register(adm, e, "password1", long, role, r, nm, b, lat, code, out)

\* Academic records in detail: one student whose two semesters are imported,
\* re-imported and corrected, at one BLOCKING company.
AcademicInputs ==
    [rolls |-> {"R1"}, branches |-> Branches, laterals |-> BOOLEAN,
     start_sems |-> {1}, resumes |-> {TRUE}, new_statuses |-> {"ELIGIBLE"},
     notes |-> {NoReason}, link_flags |-> {TRUE},
     sems |-> {2, 3}, credits |-> {20}, pdf_flags |-> {TRUE},
     sgpas |-> {800, 801}, backlogs |-> {2}, new_backlogs |-> {-1},
     companies |-> {"C1"}, branch_texts |-> {<<"ALL">>}, min_cgpas |-> {0},
     max_backlogs |-> {999}, policies |-> {"BLOCKING"},
     template_flags |-> {TRUE},
     set_statuses |-> {"EXTERNAL_PLACED"}, app_statuses |-> {"SELECTED"},
     outcomes |-> {"SENT"}, admin_flags |-> {FALSE}, emails |-> {"s1@x"},
     long_flags |-> {TRUE}, roles |-> {"STUDENT"}, reg_rolls |-> {"R1"},
     name_flags |-> {TRUE}, reg_branches |-> {"CSE"}, codes |-> {"000001"}]

Next == Handlers(AcademicInputs)

Spec == Init /\ [][Next]_vars

\* C1: each student's stored cgpa is the CGPA computed from the student's
\* current SemesterPerformance rows, and the stored total_backlogs is the
\* sum of max(0, backlog_count) over all of them.
C1_MetricsAreDerived ==
    \A sid \in DOMAIN student :
      LET records == RecordsOf(semester_performance, sid)
          counted == [i \in 1..Len(records) |->
                        IF records[i].backlog_count > 0
                        THEN records[i].backlog_count ELSE 0]
      IN  /\ student[sid].cgpa = calculate_cgpa(student, semester_performance, sid)
          /\ student[sid].total_backlogs = SumInts(counted)

\* A student with two semesters on record, one of them corrected by hand to
\* a negative backlog count, the other carrying backlogs.
C1_Witness ==
    \E sid \in DOMAIN student :
      LET records == RecordsOf(semester_performance, sid) IN
      /\ Len(records) = 2
      /\ \E i \in 1..2 : records[i].backlog_count < 0
      /\ student[sid].total_backlogs > 0
      /\ student[sid].cgpa > 0
      /\ Len(backlog_update) > 0

\* C10: a manual backlog correction changes nothing but the targeted
\* record's backlog_count, the student's total_backlogs and the ledger; in
\* particular the student's cgpa and every record's SGPA and credits stay.
C10_BacklogCorrectionFrame ==
    [][Len(backlog_update') = Len(backlog_update) + 1 =>
         LET e == backlog_update'[Len(backlog_update')]
             i == PerfIndex(semester_performance, e.student_id, e.semester_no)
         IN  /\ i # 0
             /\ student'[e.student_id].cgpa = student[e.student_id].cgpa
             /\ student' = [student EXCEPT ![e.student_id].total_backlogs =
                                             student'[e.student_id].total_backlogs]
             /\ semester_performance' =
                  [semester_performance EXCEPT ![i].backlog_count = e.new_backlog]
             /\ UNCHANGED <<company, application, accounts, mail_server, upload, other_session>>]_vars

\* A correction was just recorded for a student whose cgpa is not zero.
C10_Witness ==
    /\ flash[1] = "Backlog updated and CGPA/backlog metrics recalculated."
    /\ Len(backlog_update) > 0
    /\ LET e == backlog_update[Len(backlog_update)] IN
         /\ student[e.student_id].cgpa > 0
         /\ e.old_backlog # e.new_backlog

(***************************************************************************)
(* Placement: one student, two companies of either selection policy, the   *)
(* student's applications and every eligibility status.                    *)
(***************************************************************************)
NextPlacement ==
    \/ \E res \in BOOLEAN, st \in {"ELIGIBLE", "BLOCKED_BY_POLICY"}, note \in {NoReason, <<"note">>} :
          students("R1", "CSE", FALSE, 1, res, st, note)
    \/ update_resume_link("R1", TRUE)
    \/ \E c \in CompanyNames, pol \in SELECTION_POLICIES :
          companies(c, <<"ALL">>, 0, 999, pol, TRUE)
    \/ \E c \in CompanyNames : applications("R1", c)
    \/ \E st \in ELIGIBILITY_STATUSES, note \in {NoReason, <<"note">>} :
          update_eligibility_status("R1", st, note)
    \/ \E a \in 1..Len(application), st \in {"APPLIED", "SELECTED"} :
          update_application_status(a, st, "SENT")

SpecPlacement == Init /\ [][NextPlacement]_vars

\* The request /applications/<a>/status with a status the handler accepts.
StatusChange(a) ==
    \E st \in APPLICATION_STATUSES, outcome \in {"SENT", "FAILED"} :
        update_application_status(a, st, outcome)

HasApplication(apps, sid, cid) ==
    \E i \in 1..Len(apps) : apps[i].student_id = sid /\ apps[i].company_id = cid

\* C3: a submission that evaluate denies creates no Application and changes
\* no stored row, and every step that creates an Application is taken from
\* a state in which evaluate allows that student for that company.
C3_DeniedSubmissionChangesNothing ==
    [][(\A sid \in DOMAIN student, cid \in DOMAIN company :
            (/\ applications(sid, cid)
             /\ ~allowed_for_company(student[sid], cid, company).allowed)
            => (store' = store /\ accounts' = accounts))
       /\ ((Len(application') > Len(application))
            => (LET new == application'[Len(application')]
                IN  /\ Len(application') = Len(application) + 1
                    /\ new.student_id \in DOMAIN student
                    /\ new.company_id \in DOMAIN company
                    /\ allowed_for_company(student[new.student_id],
                                           new.company_id, company).allowed))]_vars

\* A denied submission has been answered while the student already holds an
\* application made when evaluate allowed it.
C3_Witness ==
    /\ flash[1] = "Application blocked"
    /\ Len(application) >= 1
    /\ \E sid \in DOMAIN student : student[sid].eligibility_status = "BLOCKED_BY_POLICY"

\* C4 as stated: for a pair with no existing Application, a submission that
\* evaluate allows always creates a new Application with status APPLIED.
C4_EvaluateIsSoleGate ==
    [][\A sid \in DOMAIN student, cid \in DOMAIN company :
           (/\ applications(sid, cid)
            /\ allowed_for_company(student[sid], cid, company).allowed
            /\ ~HasApplication(application, sid, cid))
           => /\ Len(application') = Len(application) + 1
              /\ application'[Len(application')].status = "APPLIED"]_vars

\* C4 amended: for a pair with no existing Application and a student who has
\* a resume link, a submission that evaluate allows always creates a new
\* Application of that pair with status APPLIED, the earlier ones unchanged.
C4_AllowedSubmissionWithResumeCreates ==
    [][\A sid \in DOMAIN student, cid \in DOMAIN company :
           (/\ applications(sid, cid)
            /\ allowed_for_company(student[sid], cid, company).allowed
            /\ ~HasApplication(application, sid, cid)
            /\ student[sid].resume_link)
           => /\ Len(application') = Len(application) + 1
              /\ SubSeq(application', 1, Len(application)) = application
              /\ application'[Len(application')].status = "APPLIED"
              /\ application'[Len(application')].student_id = sid
              /\ application'[Len(application')].company_id = cid]_vars

\* The second application of a student has just been accepted.
C4_Witness ==
    /\ flash = <<"Application submitted.">>
    /\ Len(application) = 2
    /\ application[2].status = "APPLIED"
    /\ student[application[2].student_id].resume_link

OneApplicationPerPair ==
    \A i, j \in 1..Len(application) :
        (/\ application[i].student_id = application[j].student_id
         /\ application[i].company_id = application[j].company_id) => i = j

\* C14: at most one Application exists per (student, company) pair, and a
\* submission for a pair that has an Application is turned down, creates
\* nothing and leaves every Application and every other stored row as it was.
C14_OneApplicationPerPairKept ==
    /\ []OneApplicationPerPair
    /\ [][\A sid \in DOMAIN student, cid \in DOMAIN company :
              (applications(sid, cid) /\ HasApplication(application, sid, cid))
              => /\ application' = application
                 /\ store' = store
                 /\ flash'[1] \in {"Application blocked",
                                   "Student already applied to this company."}]_vars

\* A second submission for a pair whose application is already SELECTED at
\* a NON_BLOCKING company has been turned down as a duplicate.
C14_Witness ==
    /\ flash = <<"Student already applied to this company.">>
    /\ \E i \in 1..Len(application) :
         /\ application[i].status = "SELECTED"
         /\ company[application[i].company_id].selection_policy = "NON_BLOCKING"
    /\ Len(application) = 2

\* The most recent application of sid that is SELECTED at a BLOCKING
\* company, by applied_at.
IsLatestSelectedBlocking(apps, comp, sid, i) ==
    /\ i \in SelectedBlocking(apps, comp, sid)
    /\ \A j \in SelectedBlocking(apps, comp, sid) : apps[j].applied_at <= apps[i].applied_at

\* C5: after an application status change for student S, if S has an
\* application SELECTED at a BLOCKING company then S is BLOCKED_BY_POLICY,
\* S's blocking-company reference is the company of the most recent such
\* application and block_reason names that company; with SELECTED
\* applications at NON_BLOCKING companies only, S is not blocked.
C5_SelectionAtBlockingCompanyBlocks ==
    [][\A a \in 1..Len(application) :
           StatusChange(a) =>
             LET sid == application[a].student_id
                 found == SelectedBlocking(application', company', sid)
             IN  /\ found # {}
                    => /\ student'[sid].eligibility_status = "BLOCKED_BY_POLICY"
                       /\ \E i \in found :
                            /\ IsLatestSelectedBlocking(application', company', sid, i)
                            /\ student'[sid].blocked_by_company_id = application'[i].company_id
                            /\ student'[sid].block_reason =
                                 <<"Selected in blocking company", application'[i].company_id>>
                 /\ found = {}
                    => student'[sid].eligibility_status # "BLOCKED_BY_POLICY"]_vars

\* Both applications are SELECTED at BLOCKING companies and the student is
\* blocked by the company of the later one.
C5_Witness ==
    /\ flash[1] = "Status updated. No student user/email linked."
    /\ Len(application) = 2
    /\ \A i \in 1..2 : /\ application[i].status = "SELECTED"
                       /\ company[application[i].company_id].selection_policy = "BLOCKING"
    /\ student[application[2].student_id].eligibility_status = "BLOCKED_BY_POLICY"
    /\ student[application[2].student_id].blocked_by_company_id = application[2].company_id

\* C6: when an application status change leaves S with no application
\* SELECTED at a BLOCKING company and S was BLOCKED_BY_POLICY, S is
\* ELIGIBLE afterwards with no blocking-company reference and no reason.
C6_BlockIsLiftedWhenSelectionGoes ==
    [][\A a \in 1..Len(application) :
           LET sid == application[a].student_id IN
           (/\ StatusChange(a)
            /\ student[sid].eligibility_status = "BLOCKED_BY_POLICY"
            /\ SelectedBlocking(application', company', sid) = {})
           => /\ student'[sid].eligibility_status = "ELIGIBLE"
              /\ student'[sid].blocked_by_company_id = NULL
              /\ student'[sid].block_reason = NoReason]_vars

\* One application is SELECTED at a NON_BLOCKING company, the later one at
\* a BLOCKING company is no longer SELECTED, and the student is ELIGIBLE
\* with the reference and the reason cleared.
C6_Witness ==
    /\ flash[1] = "Status updated. No student user/email linked."
    /\ Len(application) = 2
    /\ application[1].status = "SELECTED"
    /\ company[application[1].company_id].selection_policy = "NON_BLOCKING"
    /\ application[2].status # "SELECTED"
    /\ company[application[2].company_id].selection_policy = "BLOCKING"
    /\ student[application[2].student_id].eligibility_status = "ELIGIBLE"
    /\ student[application[2].student_id].blocked_by_company_id = NULL
    /\ student[application[2].student_id].block_reason = NoReason

MANUAL_STATUSES == {"EXTERNAL_PLACED", "EXTERNAL_INTERN", "CAMPUS_INTERN"}

\* C7: an application status change on a student whose eligibility_status
\* is EXTERNAL_PLACED, EXTERNAL_INTERN or CAMPUS_INTERN leaves the student's
\* eligibility_status, block_reason and blocking-company reference as they
\* were, whatever applications the student has.
C7_ResolverLeavesManualStatesUntouched ==
    [][\A a \in 1..Len(application) :
           LET sid == application[a].student_id IN
           (StatusChange(a) /\ student[sid].eligibility_status \in MANUAL_STATUSES)
           => /\ student'[sid].eligibility_status = student[sid].eligibility_status
              /\ student'[sid].block_reason = student[sid].block_reason
              /\ student'[sid].blocked_by_company_id =
                     student[sid].blocked_by_company_id]_vars

\* C8: a student who has an application SELECTED at a BLOCKING company gets
\* no new application created.
C8_SelectionAtBlockingForecloses ==
    [][\A sid \in DOMAIN student :
           (/\ SelectedBlocking(application, company, sid) # {}
            /\ Len(application') > Len(application))
           => application'[Len(application')].student_id # sid]_vars

\* C21: in every reachable state a student whose blocking-company reference
\* (blocked_by_company_id) is set has eligibility_status BLOCKED_BY_POLICY:
\* the resolver's revert and every manual update to another status clear it.
C21_ReferenceImpliesBlocked ==
    \A sid \in DOMAIN student :
       student[sid].blocked_by_company_id # NULL
         => student[sid].eligibility_status = "BLOCKED_BY_POLICY"

\* A manual update that kept the block of a student the resolver had blocked.
C21_Witness ==
    /\ flash = <<"Eligibility status updated.">>
    /\ \E sid \in DOMAIN student :
          /\ student[sid].blocked_by_company_id # NULL
          /\ student[sid].eligibility_status = "BLOCKED_BY_POLICY"
          /\ student[sid].block_reason = <<"note">>

(***************************************************************************)
(* Imports: a student entered by hand (either branch, regular or lateral   *)
(* entry), CSE gradesheets of two semesters for that student and one more, *)
(* in either semester order, with and without a usable credit weight, and  *)
(* corrections by hand.                                                    *)
(***************************************************************************)
ImportBranches == {"cse"}
ImportSems == {2, 3}
ImportRowOf(roll_no) == [roll_no |-> roll_no, sgpa |-> 800, backlog |-> 2]
ImportBatches ==
    {<<ImportRowOf(a)>> : a \in {"R1", "R2"}}
      \cup {<<ImportRowOf(a), ImportRowOf(b)>> : a \in {"R1", "R2"}, b \in {"R1"}}

NextImport ==
    \/ \E b \in Branches, lat \in BOOLEAN :
          students("R1", b, lat, 3, TRUE, "ELIGIBLE", NoReason)
    \/ \E b \in ImportBranches, sem \in ImportSems, rows \in ImportBatches :
          import_sgpa(b, sem, 20, TRUE, rows)
    \/ \E b \in ImportBranches, sem \in ImportSems, cr \in {0, -10} :
          import_sgpa(b, sem, cr, TRUE, <<ImportRowOf("R1"), ImportRowOf("R2")>>)
    \/ \E sem \in ImportSems : update_backlog("R1", sem, 0)

SpecImport == Init /\ [][NextImport]_vars

\* The state the row loop starts from.
LoopStart(stu, perf) ==
    [student |-> stu, perf |-> perf, updated |-> 0, created_students |-> 0,
     skipped_lateral |-> 0]

\* Whether the loop goes through with a row of roll_no: the student is new,
\* or is of the batch's branch and not a lateral entrant below semester 3.
RowIsProcessed(stu, roll_no, branch, semester_no) ==
    \/ roll_no \notin DOMAIN stu
    \/ /\ Upper(stu[roll_no].branch) = Upper(branch)
       /\ ~(stu[roll_no].is_lateral_entry /\ semester_no < 3)

\* C11: importing the same rows with the same branch, semester and credits
\* once more leaves every student and every SemesterPerformance row as the
\* first import left them and creates no student and no record.
C11_ReimportIsIdempotent ==
    [][\A b \in ImportBranches, sem \in ImportSems, rows \in ImportBatches :
           import_sgpa(b, sem, 20, TRUE, rows)
           => LET again == ImportRows(LoopStart(student', semester_performance'),
                                      rows, Upper(b), sem, 20)
              IN  /\ again.student = student'
                  /\ again.perf = semester_performance'
                  /\ again.created_students = 0]_vars

\* Both students' records of one semester were imported by a batch that
\* found both students and both records in place.
C11_Witness ==
    /\ flash = <<"Processed", 2, 0, 0>>
    /\ Len(semester_performance) = 2
    /\ DOMAIN student = {"R1", "R2"}
    /\ semester_performance[1].semester_no = semester_performance[2].semester_no

\* C16: an import whose credit weight is <= 0 creates no student, creates
\* or changes no SemesterPerformance row and changes no student.
C16_NonPositiveCreditsRejected ==
    [][\A b \in ImportBranches, sem \in ImportSems, cr \in {0, -10}, rows \in ImportBatches :
           import_sgpa(b, sem, cr, TRUE, rows)
           => /\ student' = student
              /\ semester_performance' = semester_performance
              /\ store' = store]_vars

\* An import with a non-positive credit weight has been turned down while
\* a student the batch names is on record.
C16_Witness ==
    /\ flash = <<"Semester credits must be greater than 0.">>
    /\ "R1" \in DOMAIN student
    /\ Len(semester_performance) > 0

\* C17: an import row whose roll number belongs to an existing student of
\* another branch than the batch's, compared without regard to case, leaves
\* that student's row and SemesterPerformance records as they were and is
\* not counted among the updated rows.
C17_CrossBranchRowSkipped ==
    [][\A b \in ImportBranches, sem \in ImportSems, rows \in ImportBatches :
           import_sgpa(b, sem, 20, TRUE, rows)
           => /\ \A sid \in DOMAIN student :
                    Upper(student[sid].branch) # Upper(b)
                    => /\ student'[sid] = student[sid]
                       /\ RecordsOf(semester_performance', sid) =
                              RecordsOf(semester_performance, sid)
              /\ flash'[2] = Cardinality({i \in 1..Len(rows) :
                                 RowIsProcessed(student, rows[i].roll_no, b, sem)})]_vars

\* A batch naming only the ECE student has gone through: nothing updated,
\* nobody created, no lateral skip, and the student has no record.
C17_Witness ==
    /\ flash = <<"Processed", 0, 0, 0>>
    /\ "R1" \in DOMAIN student
    /\ student["R1"].branch = "ECE"
    /\ ~student["R1"].is_lateral_entry
    /\ RecordsOf(semester_performance, "R1") = << >>

\* No lateral-entry student has a performance record for semester 1 or 2.
NoLateralRecordBelowThree ==
    \A i \in 1..Len(semester_performance) :
        student[semester_performance[i].student_id].is_lateral_entry
        => semester_performance[i].semester_no >= 3

\* C18 as stated: every import row for a lateral-entry student with
\* semester_no < 3 is counted once as a lateral skip and no record is
\* created or changed for it; no lateral-entry student ever has a record
\* for semester 1 or 2.
C18_LateralRowSkippedAndCounted ==
    /\ []NoLateralRecordBelowThree
    /\ [][\A b \in ImportBranches, sem \in ImportSems, rows \in ImportBatches :
              import_sgpa(b, sem, 20, TRUE, rows)
              => /\ flash'[4] = Cardinality({i \in 1..Len(rows) :
                        /\ rows[i].roll_no \in DOMAIN student
                        /\ student[rows[i].roll_no].is_lateral_entry
                        /\ sem < 3})
                 /\ \A sid \in DOMAIN student :
                        (student[sid].is_lateral_entry /\ sem < 3)
                        => RecordsOf(semester_performance', sid) =
                               RecordsOf(semester_performance, sid)]_vars

\* C18 amended: every import row for a lateral-entry student of the batch's
\* branch with semester_no < 3 is counted once as a lateral skip, rows for
\* lateral-entry students of another branch are skipped uncounted, and no
\* record is created or changed for either; no lateral-entry student ever
\* has a record for semester 1 or 2.
C18_LateralRowOfBatchBranchCounted ==
    /\ []NoLateralRecordBelowThree
    /\ [][\A b \in ImportBranches, sem \in ImportSems, rows \in ImportBatches :
              import_sgpa(b, sem, 20, TRUE, rows)
              => /\ flash'[4] = Cardinality({i \in 1..Len(rows) :
                        /\ rows[i].roll_no \in DOMAIN student
                        /\ Upper(student[rows[i].roll_no].branch) = Upper(b)
                        /\ student[rows[i].roll_no].is_lateral_entry
                        /\ sem < 3})
                 /\ \A sid \in DOMAIN student :
                        (student[sid].is_lateral_entry /\ sem < 3)
                        => RecordsOf(semester_performance', sid) =
                               RecordsOf(semester_performance, sid)]_vars

\* A semester-2 batch with two rows for the lateral-entry CSE student has
\* gone through: two lateral skips, and the student's only record is the
\* one of semester 3.
C18_Witness ==
    /\ flash = <<"Processed", 0, 0, 2>>
    /\ student["R1"].is_lateral_entry
    /\ Len(RecordsOf(semester_performance, "R1")) = 1

SemesterBatches ==
    {<<ImportRowOf("R1")>>, <<ImportRowOf("R2"), ImportRowOf("R1")>>}

NextSemester ==
    \/ \E sem \in {1, 4} :
          students("R1", "CSE", FALSE, sem, TRUE, "ELIGIBLE", NoReason)
    \/ \E sem \in ImportSems, rows \in SemesterBatches :
          import_sgpa("CSE", sem, 20, TRUE, rows)
    \/ register(FALSE, "s1@x", "password1", TRUE, "STUDENT", "R1", TRUE, "CSE", FALSE, "000001", "SENT")

SpecSemester == Init /\ [][NextSemester]_vars

\* C19: no step lowers a student's current_semester or removes a student,
\* and after an import each student a processed row names has
\* current_semester = max(previous value, semester_no), the batch's
\* semester_no when the import created the student.
C19_CurrentSemesterNeverRegresses ==
    [][/\ \A sid \in DOMAIN student :
            /\ sid \in DOMAIN student'
            /\ student'[sid].current_semester >= student[sid].current_semester
       /\ \A sem \in ImportSems, rows \in SemesterBatches :
            import_sgpa("CSE", sem, 20, TRUE, rows)
            => \A i \in 1..Len(rows) :
                 LET sid == rows[i].roll_no IN
                 RowIsProcessed(student, sid, "CSE", sem)
                 => student'[sid].current_semester =
                      IF sid \in DOMAIN student
                      THEN Max(student[sid].current_semester, sem)
                      ELSE sem]_vars

\* The registered student was taken to semester 3 by an import and a later
\* semester-2 import has been processed for the same student, who is still
\* in semester 3.
C19_Witness ==
    /\ flash = <<"Processed", 1, 0, 0>>
    /\ "R1" \in DOMAIN student
    /\ student["R1"].current_semester = 3
    /\ \E e \in DOMAIN user : user[e].student_id = "R1"
    /\ Len(RecordsOf(semester_performance, "R1")) = 2
    /\ RecordsOf(semester_performance, "R1")[1].semester_no = 3
    /\ RecordsOf(semester_performance, "R1")[2].semester_no = 2

(***************************************************************************)
(* Notification: a registered student with an application, with and        *)
(* without a configured mail server, deliveries that succeed and fail.     *)
(***************************************************************************)
\* The store after bootstrap_database(), MAIL_SERVER set in the environment
\* or not.
InitNotify ==
    /\ student = << >>
    /\ semester_performance = << >>
    /\ backlog_update = << >>
    /\ company = << >>
    /\ application = << >>
    /\ user = ("admin@placement.local" :> DefaultAdmin)
    /\ otp_token = << >>
    /\ notification_log = << >>
    /\ session = [user_id |-> NULL, pending_verify_user_id |-> NULL,
                  pending_login_user_id |-> NULL]
    /\ mail_server \in BOOLEAN
    /\ upload = NoUpload
    /\ other_session = NoSession
    /\ flash = <<"">>

DeliveryOutcomes == {"SENT", "FAILED"}

NextNotify ==
    \/ \E out \in DeliveryOutcomes :
          register(FALSE, "s1@x", "password1", TRUE, "STUDENT", "R1", TRUE, "CSE", FALSE, "000001", out)
    \/ students("R1", "CSE", FALSE, 1, TRUE, "ELIGIBLE", NoReason)
    \/ update_resume_link("R1", TRUE)
    \/ \E c \in CompanyNames, pol \in SELECTION_POLICIES :
          companies(c, <<"ALL">>, 0, 999, pol, TRUE)
    \/ \E c \in CompanyNames : applications("R1", c)
    \/ \E a \in 1..Len(application), st \in {"SELECTED", "REJECTED"}, out \in DeliveryOutcomes :
          update_application_status(a, st, out)

SpecNotify == InitNotify /\ [][NextNotify]_vars

\* C15: an application status change stores the new status and the
\* recomputed eligibility whatever the delivery does - sent, failed or no
\* mail server - and adds, for a linked student user, one notification log
\* entry whose status is SENT only for a delivery that went out; an attempt
\* that did not go out is answered as a failed delivery, nothing more.
C15_NotificationFailureKeepsChange ==
    [][\A a \in 1..Len(application), st \in APPLICATION_STATUSES, out \in DeliveryOutcomes :
           update_application_status(a, st, out)
           => LET sid == application[a].student_id
                  apps2 == [application EXCEPT ![a].status = st]
              IN  /\ application' = apps2
                  /\ student' = recompute_blocking_status(student, apps2, company, sid)
                  /\ IF StudentUser(sid) = {}
                     THEN notification_log' = notification_log
                     ELSE /\ Len(notification_log') = Len(notification_log) + 1
                          /\ SubSeq(notification_log', 1, Len(notification_log)) =
                                 notification_log
                          /\ notification_log'[Len(notification_log')].status =
                               IF ~mail_server THEN "NO_MAIL_SERVER_CONFIGURED" ELSE out
                          /\ (notification_log'[Len(notification_log')].status # "SENT")
                               <=> (flash' = <<"Status updated but email delivery failed.">>)]_vars

\* The delivery for a change to SELECTED at a BLOCKING company failed on a
\* configured mail server: the log says FAILED, the application is SELECTED
\* and the student is blocked.
C15_Witness ==
    /\ mail_server
    /\ flash = <<"Status updated but email delivery failed.">>
    /\ Len(notification_log) > 0
    /\ notification_log[Len(notification_log)].status = "FAILED"
    /\ notification_log[Len(notification_log)].subject = "Application Status Updated"
    /\ \E i \in 1..Len(application) :
         /\ application[i].status = "SELECTED"
         /\ company[application[i].company_id].selection_policy = "BLOCKING"
         /\ student[application[i].student_id].eligibility_status = "BLOCKED_BY_POLICY"

(***************************************************************************)
(* The parser: uploads of one or two tables under four headers, with data  *)
(* rows of every length up to the header's, and cells that pass and fail   *)
(* each test of the row loop.                                              *)
(***************************************************************************)
\* "cs21-001", " cs 21/02 ", "cs21", "-s21-1", ""
RollCells ==
    {<<"c", "s", "2", "1", "-", "0", "0", "1">>,
     <<" ", "c", "s", " ", "2", "1", "/", "0", "2", " ">>,
     <<"c", "s", "2", "1">>,
     <<"-", "s", "2", "1", "-", "1">>,
     << >>}

\* "8.00", "10", "10.5", " 9.5 ", "10.000", "8.", ""
SgpaCells ==
    {<<"8", ".", "0", "0">>,
     <<"1", "0">>,
     <<"1", "0", ".", "5">>,
     <<" ", "9", ".", "5", " ">>,
     <<"1", "0", ".", "0", "0", "0">>,
     <<"8", ".">>,
     << >>}

\* "2", "", "-1", "02", "2²"
BacklogCells ==
    {<<"2">>,
     << >>,
     <<"-", "1">>,
     <<"0", "2">>,
     <<"2", "²">>}

NameCells == {<< >>}

\* Roll No | Name | SGPA | Backlogs
HeaderRollNameSgpaBacklogs ==
    <<<<"R", "o", "l", "l", " ", "N", "o">>,
      <<"N", "a", "m", "e">>,
      <<"S", "G", "P", "A">>,
      <<"B", "a", "c", "k", "l", "o", "g", "s">>>>

\* SGPA | Roll No
HeaderSgpaRoll ==
    <<<<"S", "G", "P", "A">>,
      <<"R", "o", "l", "l", " ", "N", "o">>>>

\* Enrollment No | SGPA | KT
HeaderEnrollSgpaKt ==
    <<<<"E", "n", "r", "o", "l", "l", "m", "e", "n", "t", " ", "N", "o">>,
      <<" ", "s", "g", "p", "a", " ">>,
      <<"K", "T">>>>

\* Name | SGPA
HeaderNameSgpa ==
    <<<<"N", "a", "m", "e">>,
      <<"S", "G", "P", "A">>>>

\* A layout: a header row and, column by column, the cells a data row draws.
Layouts ==
    {[header |-> HeaderRollNameSgpaBacklogs,
      cells |-> <<RollCells, NameCells, SgpaCells, BacklogCells>>],
     [header |-> HeaderSgpaRoll, cells |-> <<SgpaCells, RollCells>>],
     [header |-> HeaderEnrollSgpaKt,
      cells |-> <<RollCells, SgpaCells, BacklogCells>>],
     [header |-> HeaderNameSgpa, cells |-> <<NameCells, SgpaCells>>]}

\* The rows of exactly the columns given, and those cut short.
RECURSIVE FullRows(_)
FullRows(cells) ==
    IF Len(cells) = 0 THEN {<< >>}
    ELSE {<<c>> \o rest : c \in Head(cells), rest \in FullRows(Tail(cells))}

RowsOf(layout) ==
    {SubSeq(row, 1, k) : row \in FullRows(layout.cells), k \in 0..Len(layout.cells)}

\* Rows for the tables of several rows: cut after the first column or
\* whole, with cells of two valid rolls, one roll too short, one grade and
\* backlog 2; the name and the backlog may be blank.
SampleCells ==
    {<<"c", "s", "2", "1", "-", "0", "0", "1">>,
     <<" ", "c", "s", " ", "2", "1", "/", "0", "2", " ">>,
     <<"c", "s", "2", "1">>,
     <<"8", ".", "0", "0">>,
     <<"2">>}

SampleRowsOf(layout) ==
    {row \in RowsOf(layout) :
       /\ Len(row) \in {1, Len(layout.cells)}
       /\ \A i \in 1..Len(row) :
            \/ row[i] \in SampleCells
            \/ row[i] = << >> /\ layout.cells[i] \in {NameCells, BacklogCells}
       /\ Len(row) = 1 => row[1] \in {<<"c", "s", "2", "1", "-", "0", "0", "1">>, <<"8", ".", "0", "0">>}}

RowSeqs(rows, n) == [1..n -> rows]

TablesOf(layout) ==
    {<<layout.header>> \o rows :
       rows \in RowSeqs(RowsOf(layout), 1)
                  \cup RowSeqs(SampleRowsOf(layout), MaxRows + 1)}

Uploads ==
    {[present |-> TRUE, tables |-> <<t>>] : t \in UNION {TablesOf(l) : l \in Layouts}}
      \cup {[present |-> TRUE, tables |-> <<t, u>>] :
              t \in {<<HeaderNameSgpa, <<<< >>, <<"8", ".", "0", "0">>>>>>, <<HeaderSgpaRoll>>},
              u \in TablesOf([header |-> HeaderSgpaRoll,
                              cells |-> <<{<<"1", "0">>}, RollCells>>])}
      \cup {[present |-> TRUE, tables |-> << >>], NoUpload}

InitParse ==
    /\ student = << >>
    /\ semester_performance = << >>
    /\ backlog_update = << >>
    /\ company = << >>
    /\ application = << >>
    /\ user = ("admin@placement.local" :> DefaultAdmin)
    /\ otp_token = << >>
    /\ notification_log = << >>
    /\ session = [user_id |-> NULL, pending_verify_user_id |-> NULL,
                  pending_login_user_id |-> NULL]
    /\ mail_server = FALSE
    /\ upload \in Uploads
    /\ other_session = NoSession
    /\ flash = <<"">>

NextParse ==
    \E branch \in {"cse"}, semester_no \in {1}, semester_credits \in {20} :
        import_pdf(branch, semester_no, semester_credits)

SpecParse == InitParse /\ [][NextParse]_vars

(***************************************************************************)
(* C12.  Rows failing validation are silently dropped, not reported as     *)
(* errors: whatever the column order and whatever the length of the data   *)
(* rows, parsing completes without raising, so that no import request is   *)
(* answered by a server error.                                             *)
(***************************************************************************)
C12_ParsingNeverRaises == flash # <<"500 Internal Server Error">>

\* The claim says of a PDF what the parser is to emit for it.
\* The cell of column i of a row, blank where the row ends before it.
CellAt(row, i) == IF i \in 1..Len(row) THEN row[i] ELSE << >>

\* Trimmed, uppercased and space-stripped.
NormalRoll(cell) ==
    LET kept == {i \in 1..Len(cell) : cell[i] \notin WhiteSpace}
        nth(k) == CHOOSE i \in kept : Cardinality({j \in kept : j < i}) = k - 1
    IN  [k \in 1..Cardinality(kept) |->
           IF cell[nth(k)] \in Range(LowerLetters)
           THEN CHOOSE u \in Range(UpperLetters) :
                  \E n \in 1..26 : LowerLetters[n] = cell[nth(k)] /\ UpperLetters[n] = u
           ELSE cell[nth(k)]]

\* One letter or digit followed by at least 4 letters, digits, hyphens or
\* slashes.
IsRollNumber(t) ==
    /\ Len(t) > 0
    /\ Head(t) \in Letters \cup Range(DecimalDigits)
    /\ Len(Tail(t)) >= 4
    /\ Range(Tail(t)) \subseteq Letters \cup Range(DecimalDigits) \cup {"-", "/"}

\* The grades of the 0-10 scale with at most two decimals, in hundredths,
\* and the texts that write them: 10 only as 10 or 10.0...
GradeTextsOf(v) ==
    LET d(n) == DecimalDigits[n + 1]
        units == v \div 100
        tenths == (v \div 10) % 10
        hundredths == v % 10
    IN  IF v = 1000
        THEN {<<"1", "0">>} \cup {<<"1", "0", ".">> \o [i \in 1..n |-> "0"] : n \in 1..4}
        ELSE {<<d(units), ".", d(tenths), d(hundredths)>>}
               \cup (IF hundredths = 0 THEN {<<d(units), ".", d(tenths)>>} ELSE {})
               \cup (IF tenths = 0 /\ hundredths = 0 THEN {<<d(units)>>} ELSE {})

IsGrade(text) == \E v \in 0..1000 : text \in GradeTextsOf(v)
GradeOf(text) == CHOOSE v \in 0..1000 : text \in GradeTextsOf(v)

\* A non-negative integer literal and its value.
IsNaturalLiteral(text) ==
    Len(text) > 0 /\ \A i \in 1..Len(text) : text[i] \in Range(DecimalDigits)
NaturalOf(text) ==
    SumInts([i \in 1..Len(text) |->
               (IndexIn(DecimalDigits, text[i]) - 1) * 10 ^ (Len(text) - i)])

\* The rows a table is to yield, in the order of its data rows.
ExpectedOfTable(table) ==
    LET header == [i \in 1..Len(table[1]) |-> str_lower(str_strip(table[1][i]))]
        roll == FirstColumn(header, {<<"r", "o", "l", "l">>})
        sgpa == FirstColumn(header, {<<"s", "g", "p", "a">>})
        backlog == FirstColumn(header,
                     {<<"b", "a", "c", "k", "l", "o", "g">>, <<"k", "t">>})
        Kept(row) == /\ Len(row) >= sgpa
                     /\ IsRollNumber(NormalRoll(CellAt(row, roll)))
                     /\ IsGrade(str_strip(CellAt(row, sgpa)))
        Meaning(row) ==
            [roll_no |-> NormalRoll(CellAt(row, roll)),
             sgpa |-> GradeOf(str_strip(CellAt(row, sgpa))),
             backlog |-> IF IsNaturalLiteral(str_strip(CellAt(row, backlog)))
                         THEN NaturalOf(str_strip(CellAt(row, backlog))) ELSE 0]
        data == SelectSeq(Tail(table), Kept)
    IN  IF roll = 0 \/ sgpa = 0 THEN << >>
        ELSE [i \in 1..Len(data) |-> Meaning(data[i])]

RECURSIVE ExpectedRows(_)
ExpectedRows(tables) ==
    IF Len(tables) = 0 THEN << >>
    ELSE (IF Len(Head(tables)) < 2 THEN << >> ELSE ExpectedOfTable(Head(tables)))
           \o ExpectedRows(Tail(tables))

\* The last row of rows that names roll_no.
LastRowOf(rows, roll_no) ==
    rows[CHOOSE i \in 1..Len(rows) :
           /\ rows[i].roll_no = roll_no
           /\ \A j \in (i + 1)..Len(rows) : rows[j].roll_no # roll_no]

(***************************************************************************)
(* C13.  Once an import of a PDF is answered, the rows the parser emitted  *)
(* are the rows of the PDF, in document order, whose normalised roll cell  *)
(* is a roll number and whose trimmed sgpa cell is a grade of the 0-10     *)
(* scale with at most two decimals, each with the roll number, the grade   *)
(* and the backlog (the cell's non-negative integer literal, else 0); and  *)
(* those are the values the import stored.                                 *)
(***************************************************************************)
C13_EmittedRowsAreValidated ==
    (upload.present /\ flash[1] \in {"Processed", "No valid rows found in PDF."})
      => LET rows == parse_pdf_rows(upload.tables).rows IN
         /\ rows = ExpectedRows(upload.tables)
         /\ \A i \in 1..Len(rows) :
              /\ IsRollNumber(rows[i].roll_no)
              /\ rows[i].sgpa \in 0..1000
              /\ rows[i].backlog >= 0
         /\ flash[1] = "Processed" <=> Len(rows) > 0
         /\ flash[1] = "Processed" =>
              /\ flash[2] = Len(rows)
              /\ DOMAIN student = {rows[i].roll_no : i \in 1..Len(rows)}
              /\ \A sid \in DOMAIN student :
                   \E i \in 1..Len(semester_performance) :
                      /\ semester_performance[i].student_id = sid
                      /\ semester_performance[i].sgpa = LastRowOf(rows, sid).sgpa
                      /\ semester_performance[i].backlog_count
                           = LastRowOf(rows, sid).backlog

\* The example of the claim, imported.
C13_Witness ==
    /\ upload.tables = <<<<HeaderRollNameSgpaBacklogs,
                           <<<<"c", "s", "2", "1", "-", "0", "0", "1">>,
                             << >>,
                             <<"8", ".", "0", "0">>,
                             <<"2">>>>>>>>
    /\ flash[1] = "Processed"
    /\ DOMAIN student = {<<"C", "S", "2", "1", "-", "0", "0", "1">>}
    /\ semester_performance[1].sgpa = 800
    /\ semester_performance[1].backlog_count = 2

(***************************************************************************)
(* Login: two browsers, the bootstrap admin and one student who registers, *)
(* right and wrong passwords, two OTP codes that are drawn and typed, and  *)
(* tokens that expire.                                                     *)
(***************************************************************************)
Codes == {"000001", "000002"}
Emails == {"admin@placement.local", "s1@x"}
Passwords == {"admin123", "password1"}

NextAuth ==
    \/ \E code \in Codes :
          register(FALSE, "s1@x", "password1", TRUE, "STUDENT", "R1", TRUE, "CSE", FALSE, code, "SENT")
    \/ \E code \in Codes : verify_email(code)
    \/ \E email \in Emails, password \in Passwords, code \in Codes :
          login(email, password, code, "SENT")
    \/ \E code \in Codes : verify_login(code)
    \/ logout
    \/ switch_browser
    \/ \E i \in 1..Len(otp_token) : token_expires(i)

SpecAuth == Init /\ [][NextAuth]_vars

\* Issuing a new OTP for (user, purpose) invalidates every earlier one: of
\* two tokens of the same user and purpose the earlier one is consumed.
EarlierTokensAreConsumed ==
    \A i, j \in 1..Len(otp_token) :
       (/\ i < j
        /\ otp_token[i].user_id = otp_token[j].user_id
        /\ otp_token[i].purpose = otp_token[j].purpose)
       => otp_token[i].consumed

\* A pending login is one of a verified user.
PendingLoginIsVerified ==
    \A s \in {session, other_session} :
       s.pending_login_user_id # NULL => user[s.pending_login_user_id].is_verified

\* The step makes this browser's session logged in as another user.
BecomesLoggedIn ==
    /\ ~switch_browser
    /\ session'.user_id # NULL
    /\ session'.user_id # session.user_id

\* The step is the submission of U's latest unconsumed, unexpired LOGIN code
\* in a session where U's login is pending, and it consumes that token only.
LoginCodeAccepted(U) ==
    LET t == ActiveToken(otp_token, U, "LOGIN") IN
    /\ session.pending_login_user_id = U
    /\ user[U].is_verified
    /\ t # 0
    /\ ~otp_token[t].expired
    /\ verify_login(otp_token[t].code)
    /\ otp_token' = [otp_token EXCEPT ![t].consumed = TRUE]

\* The step starts a pending login in this browser's session.
BecomesPending ==
    /\ ~switch_browser
    /\ session'.pending_login_user_id # NULL
    /\ session'.pending_login_user_id # session.pending_login_user_id

\* The step is the submission of U's correct password, U being verified.
PasswordAccepted(U) ==
    /\ user[U].is_verified
    /\ \E code \in Codes : login(U, user[U].password, code, "SENT")

\* The step is a code submission that is accepted.
VerificationSucceeds ==
    /\ \E code \in Codes : verify_login(code) \/ verify_email(code)
    /\ flash' \in {<<"Logged in successfully.">>, <<"Email verified. Please login.">>}

\* The step consumes exactly one token, which was unconsumed.
ConsumesOneToken ==
    \E t \in 1..Len(otp_token) :
       /\ ~otp_token[t].consumed
       /\ otp_token' = [otp_token EXCEPT ![t].consumed = TRUE]

(***************************************************************************)
(* C22.  A session becomes logged in as U only by the submission of the    *)
(* code of U's latest unconsumed, unexpired LOGIN token while U's login is *)
(* pending in it; a login becomes pending only by the submission of U's    *)
(* correct password while U is verified.  A successful verification        *)
(* consumes its token, a consumed token stays consumed, a new OTP leaves   *)
(* no earlier unconsumed token of its user and purpose, and a login leaves *)
(* every VERIFY_EMAIL token as it was.                                     *)
(***************************************************************************)
C22_LoginOnlyAfterPasswordThenOtp ==
    /\ [](EarlierTokensAreConsumed /\ PendingLoginIsVerified)
    /\ [][/\ BecomesLoggedIn => LoginCodeAccepted(session'.user_id)
          /\ BecomesPending => PasswordAccepted(session'.pending_login_user_id)
          /\ VerificationSucceeds => ConsumesOneToken
          /\ Len(otp_token') >= Len(otp_token)
          /\ \A t \in 1..Len(otp_token) :
               /\ otp_token[t].consumed => otp_token'[t].consumed
               /\ otp_token'[t].user_id = otp_token[t].user_id
               /\ otp_token'[t].purpose = otp_token[t].purpose
               /\ otp_token'[t].code = otp_token[t].code
               /\ (BecomesLoggedIn /\ otp_token[t].purpose = "VERIFY_EMAIL")
                    => otp_token'[t] = otp_token[t]]_vars

\* The student registered, verified the address, gave the password and
\* then the login code.
C22_Witness ==
    /\ flash = <<"Logged in successfully.">>
    /\ session.user_id = "s1@x"
    /\ user["s1@x"].is_verified
    /\ \E t \in 1..Len(otp_token) :
          /\ otp_token[t].user_id = "s1@x"
          /\ otp_token[t].purpose = "LOGIN"
          /\ otp_token[t].consumed

(***************************************************************************)
(* MetricsCalculator on its own: one student whose performance rows were   *)
(* imported in any order of semesters, and the handlers that recompute the *)
(* metrics.                                                                *)
(***************************************************************************)
CgpaSems == {1, 2, 3}

\* The ways of listing some semesters of S once each.
OrderedSems(S) ==
    {q \in SeqsUpTo(S, Cardinality(S)) :
        \A i, j \in 1..Len(q) : i # j => q[i] # q[j]}

Reorderings(s) ==
    {[i \in 1..Len(s) |-> s[p[i]]] :
        p \in {f \in [1..Len(s) -> 1..Len(s)] :
                 \A i, j \in 1..Len(s) : i # j => f[i] # f[j]}}

MaxSem(q) == IF Len(q) = 0 THEN 1
             ELSE CHOOSE m \in {q[i] : i \in 1..Len(q)} :
                     \A i \in 1..Len(q) : q[i] <= m

InitCgpa ==
    /\ \E lat \in BOOLEAN :
       \E q \in OrderedSems(IF lat THEN {3} ELSE CgpaSems) :
       \E g \in [1..Len(q) -> SgpaValues], c \in [1..Len(q) -> CreditValues] :
         LET perf == [i \in 1..Len(q) |->
                        [student_id |-> "R1", semester_no |-> q[i],
                         sgpa |-> g[i], semester_credits |-> c[i],
                         backlog_count |-> 0]]
             fresh == ("R1" :> NewStudent("CSE", lat, MaxSem(q), FALSE,
                                          "ELIGIBLE", NoReason))
         IN  /\ semester_performance = perf
             /\ student = refresh_student_metrics(fresh, perf, "R1")
    /\ backlog_update = << >>
    /\ company = << >>
    /\ application = << >>
    /\ user = ("admin@placement.local" :> DefaultAdmin)
    /\ otp_token = << >>
    /\ notification_log = << >>
    /\ session = [user_id |-> NULL, pending_verify_user_id |-> NULL,
                  pending_login_user_id |-> NULL]
    /\ mail_server = FALSE
    /\ upload = NoUpload
    /\ other_session = NoSession
    /\ flash = <<"">>

NextCgpa ==
    \E sem \in CgpaSems, nb \in {1} : update_backlog("R1", sem, nb)

SpecCgpa == InitCgpa /\ [][NextCgpa]_vars

\* The hundredth nearest to the credit-weighted mean of the usable records:
\* r is within half a hundredth of weighted_sum / total_credits.
IsRoundedMean(r, usable) ==
    LET wprod(x) == x.sgpa * x.semester_credits
        cred(x) == x.semester_credits
        W == SumSeq(usable, wprod)
        T == SumSeq(usable, cred)
    IN  /\ 2 * (r * T - W) <= T
        /\ 2 * (W - r * T) <= T

UsableOf(records, lat) ==
    LET ok(x) == x.semester_no >= (IF lat THEN 3 ELSE 1)
                 /\ x.semester_credits > 0
    IN  SelectSeq(records, ok)

\* C9: calculate_cgpa is the credit-weighted mean of SGPA, rounded to two
\* decimals, over the records with semester_no >= (3 if lateral else 1) and
\* credits > 0, whatever the order of the records; 0.0 when no record is
\* usable.
C9_CgpaIsOrderIndependentMean ==
    \A sid \in DOMAIN student :
      LET lat == student[sid].is_lateral_entry
          records == RecordsOf(semester_performance, sid)
          usable == UsableOf(records, lat)
      IN  \A p \in Reorderings(records) :
            /\ CgpaOfRecords(p, lat) = CgpaOfRecords(records, lat)
            /\ IF Len(usable) = 0 THEN CgpaOfRecords(p, lat) = 0
               ELSE IsRoundedMean(CgpaOfRecords(p, lat), usable)

(***************************************************************************)
(* EligibilityEvaluator: one student and one company whose fields range    *)
(* over every rule of allowed_for_company.                                 *)
(***************************************************************************)
NextEval ==
    \/ \E b \in Branches, st \in ELIGIBILITY_STATUSES, note \in {NoReason, <<"note">>} :
          students("R1", b, FALSE, 1, TRUE, st, note)
    \/ \E bl \in {0, 2} :
          import_sgpa("CSE", 3, 20, TRUE, <<[roll_no |-> "R1", sgpa |-> 800, backlog |-> bl]>>)
    \/ \E eb \in {<<"ALL">>, <<"ECE">>, <<"ECE", "ALL">>}, mc \in {0, 900}, mb \in {1, 999} :
          companies("C1", eb, mc, mb, "BLOCKING", TRUE)
    \/ applications("R1", "C1")
    \/ \E st \in ELIGIBILITY_STATUSES, note \in {NoReason, <<"note">>} :
          update_eligibility_status("R1", st, note)
    \/ \E a \in 1..Len(application), st \in {"APPLIED", "SELECTED"} :
          update_application_status(a, st, "SENT")

SpecEval == Init /\ [][NextEval]_vars

\* The rules of the evaluator, in the order of the claim: whether rule k
\* denies student row s at company c.
RuleApplies(k, s, c) ==
    CASE k = 1 -> s.eligibility_status = "EXTERNAL_PLACED"
      [] k = 2 -> s.eligibility_status = "EXTERNAL_INTERN"
      [] k = 3 -> s.eligibility_status = "CAMPUS_INTERN"
      [] k = 4 -> s.eligibility_status = "BLOCKED_BY_POLICY"
      [] k = 5 -> /\ \A i \in 1..Len(c.eligible_branches) :
                       c.eligible_branches[i] \notin {"ALL", s.branch}
      [] k = 6 -> s.cgpa < c.min_cgpa
      [] k = 7 -> s.total_backlogs > c.max_backlogs

\* The first word of the denial each rule gives.
RuleWords(k) ==
    CASE k = 1 -> {"already placed externally"}
      [] k = 2 -> {"already interned externally"}
      [] k = 3 -> {"already interned via campus placement"}
      [] k = 4 -> {"note", "Manually blocked by placement policy.",
                   "Selected in blocking company", "Blocked after selection in"}
      [] k = 5 -> {"branch not eligible"}
      [] k = 6 -> {"CGPA below min"}
      [] k = 7 -> {"Backlogs exceed max"}

\* C2: evaluate denies with the reason of the first applicable rule in the
\* order EXTERNAL_PLACED, EXTERNAL_INTERN, CAMPUS_INTERN, BLOCKED_BY_POLICY,
\* branch, cgpa, backlogs, and allows only when no rule applies.
C2_FirstApplicableRuleWins ==
    \A sid \in DOMAIN student, cid \in DOMAIN company :
      LET verdict == allowed_for_company(student[sid], cid, company)
          applies(k) == RuleApplies(k, student[sid], company[cid])
      IN  /\ verdict.allowed <=> \A k \in 1..7 : ~applies(k)
          /\ \A k \in 1..7 :
                (applies(k) /\ \A j \in 1..(k - 1) : ~applies(j))
                    => verdict.message[1] \in RuleWords(k)

\* A submission was just denied for a student who is BLOCKED_BY_POLICY and
\* also below the company's minimum CGPA, with the block reason.
C2_Witness ==
    /\ "R1" \in DOMAIN student /\ "C1" \in DOMAIN company
    /\ student["R1"].eligibility_status = "BLOCKED_BY_POLICY"
    /\ student["R1"].cgpa < company["C1"].min_cgpa
    /\ flash[1] = "Application blocked"
    /\ flash[2][1] \in RuleWords(4)
====
